---- MODULE Spec2Model ----
(***************************************************************************)
(* Hybrid answer-retrieval engine of the document chatbot backend:         *)
(* intent classification, SQL validation and execution over the row store, *)
(* similarity retrieval over the vector store, and the router that joins   *)
(* the structured path and the semantic path                               *)
(* (app/services/excel_query_service.py, app/services/rag_service.py).     *)
(*                                                                         *)
(* Texts (questions, SQL) are sequences of one-character strings, so that  *)
(* case folding, trimming, substring search and the regular expression's   *)
(* word boundaries are computed character by character as Python does.     *)
(***************************************************************************)
EXTENDS Integers, Sequences, FiniteSets, TLC

(***************************************************************************)
(* Text primitives (Python str methods and the `re` word boundary)         *)
(***************************************************************************)
LowerLetters == <<"a", "b", "c", "d", "e", "f", "g", "h", "i", "j", "k", "l", "m", "n", "o", "p", "q", "r", "s", "t", "u", "v", "w", "x", "y", "z">>

UpperLetters == <<"A", "B", "C", "D", "E", "F", "G", "H", "I", "J", "K", "L", "M", "N", "O", "P", "Q", "R", "S", "T", "U", "V", "W", "X", "Y", "Z">>

Digits == {"0", "1", "2", "3", "4", "5", "6", "7", "8", "9"}

Whitespace == {" ", "\n"}

Range(s) == {s[i] : i \in DOMAIN s}

\* str.upper() on one character (ASCII)
UpperChar(c) ==
    IF \E i \in 1..26 : LowerLetters[i] = c
    THEN UpperLetters[CHOOSE i \in 1..26 : LowerLetters[i] = c]
    ELSE c

\* str.lower() on one character (ASCII)
LowerChar(c) ==
    IF \E i \in 1..26 : UpperLetters[i] = c
    THEN LowerLetters[CHOOSE i \in 1..26 : UpperLetters[i] = c]
    ELSE c

Upper(s) == [i \in 1..Len(s) |-> UpperChar(s[i])]

Lower(s) == [i \in 1..Len(s) |-> LowerChar(s[i])]

\* str.strip(): drop leading and trailing whitespace
Strip(s) ==
    LET keep == {i \in 1..Len(s) : s[i] \notin Whitespace}
    IN  IF keep = {} THEN <<>>
        ELSE LET lo == CHOOSE i \in keep : \A j \in keep : i <= j
                 hi == CHOOSE i \in keep : \A j \in keep : j <= i
             IN  SubSeq(s, lo, hi)

\* s.startswith(p)
StartsWith(s, p) == Len(p) <= Len(s) /\ SubSeq(s, 1, Len(p)) = p

\* p occurs in s starting at index i
OccursAt(s, p, i) == i >= 1 /\ i + Len(p) - 1 <= Len(s) /\ SubSeq(s, i, i + Len(p) - 1) = p

\* `p in s`
Contains(s, p) == \E i \in 1..(Len(s) + 1) : OccursAt(s, p, i)

\* \w of the regular expression: letters, digits and underscore
IsWordChar(c) ==
    \/ c \in Range(LowerLetters)
    \/ c \in Range(UpperLetters)
    \/ c \in Digits
    \/ c = "_"

\* \b holds between s[i] and s[i+1] (i = 0: start of text, i = Len(s): end):
\* exactly one of the two neighbours is a word character
WordBoundary(s, i) ==
    LET before == i >= 1 /\ IsWordChar(s[i])
        after  == i + 1 <= Len(s) /\ IsWordChar(s[i + 1])
    IN  before # after

\* re.search(r'\b' + re.escape(keyword) + r'\b', s)
RegexWordSearch(s, keyword) ==
    \E i \in 1..Len(s) :
        /\ OccursAt(s, keyword, i)
        /\ WordBoundary(s, i - 1)
        /\ WordBoundary(s, i + Len(keyword) - 1)

\* the non-blank pieces of sql.split(";")
RECURSIVE SplitOn(_, _)
SplitOn(s, c) ==
    IF \A i \in 1..Len(s) : s[i] # c THEN <<s>>
    ELSE LET k == CHOOSE i \in 1..Len(s) : s[i] = c /\ \A j \in 1..(i - 1) : s[j] # c
         IN  <<SubSeq(s, 1, k - 1)>> \o SplitOn(SubSeq(s, k + 1, Len(s)), c)

\* concatenation of a sequence of texts
RECURSIVE Concat(_)
Concat(ss) == IF ss = <<>> THEN <<>> ELSE Head(ss) \o Concat(Tail(ss))

(***************************************************************************)
(* Intent detection (rule-based)                                           *)
(***************************************************************************)
AGGREGATION_KEYWORDS ==
    << <<"h", "o", "w", " ", "m", "a", "n", "y">>, <<"c", "o", "u", "n", "t">>, <<"t", "o", "t", "a", "l">>, <<"s", "u", "m">>, <<"a", "v", "e", "r", "a", "g", "e">>, <<"a", "v", "g">>,
       <<"m", "a", "x", "i", "m", "u", "m">>, <<"m", "i", "n", "i", "m", "u", "m">>, <<"m", "a", "x">>, <<"m", "i", "n">>, <<"g", "r", "o", "u", "p", " ", "b", "y">>, <<"g", "r", "o", "u", "p", "e", "d">>,
       <<"p", "e", "r", "c", "e", "n", "t", "a", "g", "e">>, <<"p", "e", "r", "c", "e", "n", "t">>, <<"%">>, <<"n", "u", "m", "b", "e", "r", " ", "o", "f">> >>

ROW_LOOKUP_KEYWORDS ==
    << <<"f", "i", "n", "d">>, <<"w", "h", "e", "r", "e">>, <<"w", "h", "i", "c", "h">>, <<"w", "h", "o", " ", "h", "a", "s">>, <<"w", "h", "o", " ", "h", "a", "v", "e">>, <<"l", "o", "o", "k", "u", "p">>,
       <<"s", "h", "o", "w", " ", "m", "e", " ", "r", "o", "w">>, <<"s", "h", "o", "w", " ", "m", "e", " ", "r", "o", "w", "s">>, <<"g", "e", "t", " ", "r", "o", "w">>, <<"g", "e", "t", " ", "r", "o", "w", "s">>,
       <<"l", "i", "s", "t", " ", "a", "l", "l">>, <<"l", "i", "s", "t", " ", "t", "h", "e">>, <<"g", "i", "v", "e", " ", "m", "e">>, <<"s", "h", "o", "w", " ", "a", "l", "l">>, <<"w", "h", "a", "t", " ", "i", "s", " ", "t", "h", "e">>,
       <<"d", "e", "t", "a", "i", "l", "s", " ", "o", "f">>, <<"d", "e", "t", "a", "i", "l", "s", " ", "f", "o", "r">>, <<"i", "n", "f", "o", "r", "m", "a", "t", "i", "o", "n", " ", "a", "b", "o", "u", "t">>, <<"i", "n", "f", "o", " ", "a", "b", "o", "u", "t">> >>

\* the `for kw in KEYWORDS: if kw in q` loop: index of the first keyword found, 0 if none
RECURSIVE FirstKeyword(_, _, _)
FirstKeyword(q, kws, i) ==
    IF i > Len(kws) THEN 0
    ELSE IF Contains(q, kws[i]) THEN i
    ELSE FirstKeyword(q, kws, i + 1)

\* detect_intent with the row-lookup keywords checked before the aggregation ones
detect_intent_LookupFirst(question) ==
    LET q == Strip(Lower(question))
    IN  IF FirstKeyword(q, ROW_LOOKUP_KEYWORDS, 1) # 0 THEN "ROW_LOOKUP"
        ELSE IF FirstKeyword(q, AGGREGATION_KEYWORDS, 1) # 0 THEN "AGGREGATION"
        ELSE "SEMANTIC"

\* detect_intent whose default is the row lookup
detect_intent_LookupDefault(question) ==
    LET q == Strip(Lower(question))
    IN  IF FirstKeyword(q, AGGREGATION_KEYWORDS, 1) # 0 THEN "AGGREGATION"
        ELSE "ROW_LOOKUP"

detect_intent(question) ==
    LET q == Strip(Lower(question))
    IN  IF FirstKeyword(q, AGGREGATION_KEYWORDS, 1) # 0 THEN "AGGREGATION"
        ELSE IF FirstKeyword(q, ROW_LOOKUP_KEYWORDS, 1) # 0 THEN "ROW_LOOKUP"
        ELSE "SEMANTIC"

(***************************************************************************)
(* SQL validation                                                          *)
(***************************************************************************)
FORBIDDEN_KEYWORDS ==
    << <<"I", "N", "S", "E", "R", "T">>, <<"U", "P", "D", "A", "T", "E">>, <<"D", "E", "L", "E", "T", "E">>, <<"D", "R", "O", "P">>, <<"A", "L", "T", "E", "R">>, <<"T", "R", "U", "N", "C", "A", "T", "E">>,
       <<"C", "R", "E", "A", "T", "E">>, <<"G", "R", "A", "N", "T">>, <<"R", "E", "V", "O", "K", "E">>, <<"E", "X", "E", "C">>, <<"E", "X", "E", "C", "U", "T", "E">>,
       <<"I", "N", "T", "O">>, <<"-", "-">>, <<"/", "*">> >>

kwSELECT == <<"S", "E", "L", "E", "C", "T">>

chatbot_id_name == <<"c", "h", "a", "t", "b", "o", "t", "_", "i", "d">>

\* the `for keyword in FORBIDDEN_KEYWORDS` loop: index of the first match, 0 if none
RECURSIVE FirstForbidden(_, _)
FirstForbidden(sql_upper, i) ==
    IF i > Len(FORBIDDEN_KEYWORDS) THEN 0
    ELSE IF RegexWordSearch(sql_upper, FORBIDDEN_KEYWORDS[i]) THEN i
    ELSE FirstForbidden(sql_upper, i + 1)

\* statements = [s.strip() for s in sql.split(";") if s.strip()]
Statements(sql) ==
    LET parts == SplitOn(sql, ";")
    IN  {i \in 1..Len(parts) : Strip(parts[i]) # <<>>}

\* validate_sql without the check for several statements
validate_sql_SingleStatementUnchecked(sql) ==
    LET sql_upper == Strip(Upper(sql))
    IN  IF Strip(sql) = <<>>
            THEN [ok |-> FALSE, reason |-> "Empty SQL query"]
        ELSE IF ~StartsWith(sql_upper, kwSELECT)
            THEN [ok |-> FALSE, reason |-> "Query must start with SELECT"]
        ELSE IF FirstForbidden(sql_upper, 1) # 0
            THEN [ok |-> FALSE, reason |-> "Forbidden keyword"]
        ELSE IF ~Contains(Lower(sql), chatbot_id_name)
            THEN [ok |-> FALSE, reason |-> "Query must include chatbot_id filter"]
        ELSE [ok |-> TRUE, reason |-> ""]

\* validate_sql: [ok, reason], the checks in the order of the code
validate_sql(sql) ==
    LET sql_upper == Strip(Upper(sql))
    IN  IF Strip(sql) = <<>>
            THEN [ok |-> FALSE, reason |-> "Empty SQL query"]
        ELSE IF ~StartsWith(sql_upper, kwSELECT)
            THEN [ok |-> FALSE, reason |-> "Query must start with SELECT"]
        ELSE IF Cardinality(Statements(sql)) > 1
            THEN [ok |-> FALSE, reason |-> "Multiple statements not allowed"]
        ELSE IF FirstForbidden(sql_upper, 1) # 0
            THEN [ok |-> FALSE, reason |-> "Forbidden keyword"]
        ELSE IF ~Contains(Lower(sql), chatbot_id_name)
            THEN [ok |-> FALSE, reason |-> "Query must include chatbot_id filter"]
        ELSE [ok |-> TRUE, reason |-> ""]

(***************************************************************************)
(* Configuration (app/config.py)                                           *)
(***************************************************************************)
RAG_TOP_K == 5

\* similarities are held in hundredths: 0.20 is 20
RAG_SIMILARITY_THRESHOLD == 20

RAG_MAX_CONTEXT_TOKENS == 40000

\* the "confident match" score of the adaptive top_k, 0.75
CONFIDENT_SIMILARITY == 75

\* get_chat_history(limit=10) and build_rag_prompt's chat_history[-10:]
HISTORY_LIMIT == 10

None == "None"

(***************************************************************************)
(* Stores                                                                  *)
(***************************************************************************)
Chatbots == {"t1", "t2"}

\* a chatbot id no Chatbot row has
UnknownChatbot == "t9"

\* ExcelRow: has_data is FALSE for a row whose row_data is the empty dict
ExcelRowUniverse ==
    { [id |-> 1, chatbot_id |-> "t1", sheet_name |-> "Sheet1", has_data |-> TRUE],
      [id |-> 2, chatbot_id |-> "t1", sheet_name |-> "Sheet2", has_data |-> FALSE],
      [id |-> 3, chatbot_id |-> "t2", sheet_name |-> "Sheet1", has_data |-> TRUE] }

\* check_has_excel_data counting the rows of every chatbot
check_has_excel_data_AnyChatbot(rows, chatbot) == Cardinality(rows) > 0

\* check_has_excel_data: count of the chatbot's ExcelRow records > 0
check_has_excel_data(rows, chatbot) ==
    Cardinality({r \in rows : r.chatbot_id = chatbot}) > 0

\* get_excel_schema: one entry per distinct sheet of the chatbot whose sampled
\* row_data is not empty; total_rows sums the counts of every distinct sheet
RECURSIVE SumCounts(_, _)
SumCounts(rows, names) ==
    IF names = {} THEN 0
    ELSE LET n == CHOOSE x \in names : TRUE
         IN  Cardinality({r \in rows : r.sheet_name = n}) + SumCounts(rows, names \ {n})

get_excel_schema(rows, chatbot) ==
    LET mine        == {r \in rows : r.chatbot_id = chatbot}
        sheet_names == {r.sheet_name : r \in mine}
        \* .limit(1) without ORDER BY: the sample is the row of least id here
        sample(n)   == CHOOSE r \in mine : r.sheet_name = n /\
                           \A o \in mine : o.sheet_name = n => r.id <= o.id
        sheets_info == { [name |-> n,
                          row_count |-> Cardinality({r \in mine : r.sheet_name = n})] :
                         n \in {m \in sheet_names : sample(m).has_data} }
    IN  [sheets |-> sheets_info, total_rows |-> SumCounts(mine, sheet_names)]

(***************************************************************************)
(* SQL produced by the LLM and its execution                               *)
(***************************************************************************)
MinimalSelect == <<"S", "E", "L", "E", "C", "T", " ", "*", " ", "F", "R", "O", "M", " ", "e", "x", "c", "e", "l", "_", "r", "o", "w", "s", " ", "W", "H", "E", "R", "E", " ", "c", "h", "a", "t", "b", "o", "t", "_", "i", "d", " ", "=", " ", ":", "c", "h", "a", "t", "b", "o", "t", "_", "i", "d">>

WhereTenant == <<" ", "W", "H", "E", "R", "E", " ", "c", "h", "a", "t", "b", "o", "t", "_", "i", "d", " ", "=", " ", ":", "c", "h", "a", "t", "b", "o", "t", "_", "i", "d">>

OrTrue == <<" ", "O", "R", " ", "1", "=", "1">>

AndFalse == <<" ", "A", "N", "D", " ", "1", "=", "0">>

kwLIMIT == <<"L", "I", "M", "I", "T">>

\* the row cap of the clause execute_safe_query appends
ROW_CAP == 1000

LimitClause == <<" ", "L", "I", "M", "I", "T", " ", "1", "0", "0", "0">>

NoSql == <<>>

\* texts chat_completion can hand back to generate_sql (after fence stripping)
LlmSqlOutputs ==
    { MinimalSelect,
      MinimalSelect \o AndFalse,
      MinimalSelect \o OrTrue,
      <<"S", "E", "L", "E", "C", "T", " ", "c", "h", "a", "t", "b", "o", "t", "_", "i", "d", ",", " ", "r", "o", "w", "_", "d", "a", "t", "a", " ", "F", "R", "O", "M", " ", "e", "x", "c", "e", "l", "_", "r", "o", "w", "s">>,
      <<"S", "E", "L", "E", "C", "T", " ", "*", " ", "F", "R", "O", "M", " ", "e", "x", "c", "e", "l", "_", "r", "o", "w", "s">>,
      <<"D", "R", "O", "P", " ", "T", "A", "B", "L", "E", " ", "e", "x", "c", "e", "l", "_", "r", "o", "w", "s">>,
      MinimalSelect \o <<";", " ", "D", "R", "O", "P", " ", "T", "A", "B", "L", "E", " ", "e", "x", "c", "e", "l", "_", "r", "o", "w", "s">>,
      NoSql }

\* s.rstrip(): drop trailing whitespace
RStrip(s) ==
    LET keep == {i \in 1..Len(s) : s[i] \notin Whitespace}
    IN  IF keep = {} THEN <<>>
        ELSE SubSeq(s, 1, CHOOSE i \in keep : \A j \in keep : j <= i)

\* s.rstrip(";"): drop trailing semicolons
RStripSemicolons(s) ==
    LET keep == {i \in 1..Len(s) : s[i] # ";"}
    IN  IF keep = {} THEN <<>>
        ELSE SubSeq(s, 1, CHOOSE i \in keep : \A j \in keep : j <= i)

\* the text execute_safe_query hands to db.execute
ExecutedSql(sql) ==
    IF ~Contains(Upper(sql), kwLIMIT)
    THEN RStripSemicolons(RStrip(sql)) \o LimitClause
    ELSE sql

\* the rows the database selects for the WHERE clauses of LlmSqlOutputs, with
\* :chatbot_id bound to `chatbot`
QueryRows(rows, sql, chatbot) ==
    IF ~Contains(sql, WhereTenant) \/ Contains(sql, OrTrue) THEN rows
    ELSE IF Contains(sql, AndFalse) THEN {}
    ELSE {r \in rows : r.chatbot_id = chatbot}

\* execute_safe_query: db.execute(text(sql), {"chatbot_id": chatbot_id}).fetchall()
execute_safe_query(rows, sql, chatbot) ==
    QueryRows(rows, ExecutedSql(sql), chatbot)

(***************************************************************************)
(* Similarity retrieval                                                    *)
(***************************************************************************)
\* the rows of `s` in ORDER BY distance (similarity descending; ties by id)
RECURSIVE OrderBySimilarity(_)
OrderBySimilarity(s) ==
    IF s = {} THEN <<>>
    ELSE LET best == CHOOSE c \in s : \A o \in s :
                         \/ c.similarity > o.similarity
                         \/ (c.similarity = o.similarity /\ c.id <= o.id)
         IN  <<best>> \o OrderBySimilarity(s \ {best})

Prefix(s, n) == SubSeq(s, 1, IF n < Len(s) THEN n ELSE Len(s))

Min2(a, b) == IF a < b THEN a ELSE b

Max2(a, b) == IF a > b THEN a ELSE b

\* an optional number argument: <<>> is Python's None, <<n>> the number n
NoNumber == <<>>

\* `top_k or settings.RAG_TOP_K`: None and 0 are both falsy
EffectiveTopK(top_k) == IF top_k = NoNumber \/ top_k[1] = 0 THEN RAG_TOP_K ELSE top_k[1]

\* `similarity_threshold or settings.RAG_SIMILARITY_THRESHOLD`
EffectiveThreshold(threshold) ==
    IF threshold = NoNumber \/ threshold[1] = 0 THEN RAG_SIMILARITY_THRESHOLD
    ELSE threshold[1]

\* the SELECT of similarity_search: the chatbot's embeddings, nearest first, LIMIT fetch_limit
VectorQuery(store, chatbot, fetch_limit) ==
    Prefix(OrderBySimilarity({c \in store : c.chatbot_id = chatbot}), fetch_limit)

\* similarity_search keeping every fetched row, whatever its similarity
ThresholdFilter_Off(rows, threshold) == rows

ThresholdFilter(rows, threshold) ==
    SelectSeq(rows, LAMBDA c : c.similarity >= threshold)

AdaptiveK(filtered, top_k) ==
    IF filtered # <<>> /\ filtered[1].similarity > CONFIDENT_SIMILARITY
    THEN Min2(top_k, Max2(3, Len(filtered)))
    ELSE Min2(top_k, Len(filtered))

\* the trimming loop going on to the next chunk where the code breaks
RECURSIVE TokenTrim_SkipOverflow(_, _)
TokenTrim_SkipOverflow(selected, total_tokens) ==
    IF selected = <<>> THEN <<>>
    ELSE IF total_tokens + Head(selected).tokens > RAG_MAX_CONTEXT_TOKENS
         THEN TokenTrim_SkipOverflow(Tail(selected), total_tokens)
    ELSE <<Head(selected)>>
             \o TokenTrim_SkipOverflow(Tail(selected), total_tokens + Head(selected).tokens)

\* token budget trimming: the loop breaks at the first chunk that overflows
RECURSIVE TokenTrim(_, _)
TokenTrim(selected, total_tokens) ==
    IF selected = <<>> THEN <<>>
    ELSE IF total_tokens + Head(selected).tokens > RAG_MAX_CONTEXT_TOKENS THEN <<>>
    ELSE <<Head(selected)>> \o TokenTrim(Tail(selected), total_tokens + Head(selected).tokens)

similarity_search(store, chatbot, top_k_arg, threshold_arg) ==
    LET top_k     == EffectiveTopK(top_k_arg)
        threshold == EffectiveThreshold(threshold_arg)
        rows      == VectorQuery(store, chatbot, top_k * 2)
        filtered  == ThresholdFilter(rows, threshold)
        selected  == Prefix(filtered, AdaptiveK(filtered, top_k))
    IN  TokenTrim(selected, 0)

(***************************************************************************)
(* Conversation history and the RAG prompt                                 *)
(***************************************************************************)
Last(s, n) == SubSeq(s, IF Len(s) > n THEN Len(s) - n + 1 ELSE 1, Len(s))

\* get_chat_history reading the conversation's oldest `limit` messages
get_chat_history_Oldest(msgs, conv, limit) ==
    LET mine == SelectSeq(msgs, LAMBDA m : m.conversation_id = conv)
    IN  [i \in 1..Len(Prefix(mine, limit)) |->
            [role |-> mine[i].role, content |-> mine[i].content]]

\* get_chat_history: the conversation's newest `limit` messages, oldest first
get_chat_history(msgs, conv, limit) ==
    LET mine == SelectSeq(msgs, LAMBDA m : m.conversation_id = conv)
    IN  [i \in 1..Len(Last(mine, limit)) |->
            [role |-> Last(mine, limit)[i].role, content |-> Last(mine, limit)[i].content]]

\* build_rag_prompt: system message, chat_history[-10:], then the question
build_rag_prompt(question, chat_history) ==
    <<[role |-> "system", content |-> "system_prompt + context"]>>
        \o Last(chat_history, HISTORY_LIMIT)
        \o <<[role |-> "user", content |-> question]>>

(***************************************************************************)
(* The questions and LLM outputs of the model                              *)
(***************************************************************************)
Questions == {"What is the total amount?", "What is the refund policy?", "Tell me about refunds"}

\* the characters of a question
QuestionText(q) ==
    CASE q = "What is the total amount?" -> <<"W", "h", "a", "t", " ", "i", "s", " ", "t", "h", "e", " ", "t", "o", "t", "a", "l", " ", "a", "m", "o", "u", "n", "t", "?">>
      [] q = "What is the refund policy?" -> <<"W", "h", "a", "t", " ", "i", "s", " ", "t", "h", "e", " ", "r", "e", "f", "u", "n", "d", " ", "p", "o", "l", "i", "c", "y", "?">>
      [] q = "Tell me about refunds" -> <<"T", "e", "l", "l", " ", "m", "e", " ", "a", "b", "o", "u", "t", " ", "r", "e", "f", "u", "n", "d", "s">>

NO_DATA_MESSAGE == "I couldn't find any matching data for your question."

\* what chat_completion can return for an answer
LlmAnswers == {"ab"}

\* the deltas a completion stream can carry (an empty delta is skipped by
\* chat_completion_stream)
LlmStreams == {<<"a", "", "b">>}

CONV_ID_MARKER == "__CONV_ID__"

(***************************************************************************)
(* State                                                                   *)
(***************************************************************************)
VARIABLES
    excel_rows,     \* the excel_rows table
    embeddings,     \* the embeddings table; similarity is to the request's query vector
    conversations,  \* the conversations table: [id, chatbot_id]
    messages,       \* the messages table in created_at order: [conversation_id, role, content]
    req,            \* the frame of the request being handled
    nreq,           \* requests received so far
    fn_arg, fn_ret, fn_pc,  \* a single call of a pure function: argument, result, position
    sheet,          \* one Google Sheet source: the remote revision and what is committed for it
    sync,           \* the frame of each task that re-syncs the sheet
    peers,          \* the frames of two streamed requests on one conversation
    limiter,        \* the counters of chat_limiter in Redis
    http            \* the frame of the request an endpoint of the routers is handling

storeVars == <<excel_rows, embeddings, conversations, messages>>

fnVars == <<fn_arg, fn_ret, fn_pc>>

sideVars == <<sheet, sync, peers, limiter, http>>

vars == <<excel_rows, embeddings, conversations, messages, req, nreq, fn_arg, fn_ret, fn_pc,
          sheet, sync, peers, limiter, http>>

MaxRequests == 1

EmptySchema == [sheets |-> {}, total_rows |-> 0]

IdleReq ==
    [ pc |-> "idle", stream |-> FALSE, chatbot_id |-> None, user_message |-> None,
      conversation_id |-> 0, conversation |-> 0, has_excel |-> FALSE, intent |-> None,
      schema |-> EmptySchema, sql |-> NoSql, sql_result |-> {}, excel_response |-> None,
      similar_chunks |-> <<>>, chat_history |-> <<>>, prompt |-> <<>>,
      response_text |-> None, llm_stream |-> <<>>, full_response |-> "",
      emitted |-> <<>>, outcome |-> None, raised_by |-> None, path_used |-> None,
      tx_aborted |-> FALSE, msg_mark |-> 0, conv_mark |-> {}, calls |-> <<>>,
      gateway |-> <<>> ]

\* chatbot t1 has one chunk above the configured threshold, chatbot t2 has none
EmbeddingStore ==
    { [id |-> 1, chatbot_id |-> "t1", similarity |-> 80, tokens |-> 100],
      [id |-> 2, chatbot_id |-> "t1", similarity |-> 10, tokens |-> 100],
      [id |-> 3, chatbot_id |-> "t2", similarity |-> 10, tokens |-> 100] }

FnIdle == fn_arg = None /\ fn_ret = None /\ fn_pc = "idle"

SyncIdle == sheet = None /\ sync = None

PeersIdle == peers = None

LimiterIdle == limiter = None /\ http = None

\* the tables after earlier traffic: chatbot t2 has a structured row, chatbot t1
\* any of its rows, and one conversation of t1 holds one complete exchange
EarlierExchange ==
    << [conversation_id |-> 1, role |-> "user", content |-> "Tell me about refunds"],
       [conversation_id |-> 1, role |-> "assistant", content |-> "ab"] >>

Init ==
    /\ excel_rows \in {s \in SUBSET ExcelRowUniverse : \E r \in s : r.chatbot_id = "t2"}
    /\ embeddings = EmbeddingStore
    /\ conversations = {[id |-> 1, chatbot_id |-> "t1"]}
    /\ messages = EarlierExchange
    /\ req = IdleReq
    /\ nreq = 0
    /\ FnIdle
    /\ SyncIdle /\ PeersIdle /\ LimiterIdle

(***************************************************************************)
(* Request frame helpers                                                   *)
(***************************************************************************)
\* the record of one call: function, SQL text (NoSql when none), success
Logged(r, fn, text, ok) ==
    [r EXCEPT !.calls = Append(@, [fn |-> fn, sql |-> text, ok |-> ok])]

\* the messages generate_sql hands to chat_completion
SqlPrompt(question) ==
    << [role |-> "system", content |-> "SQL_GENERATION_PROMPT"],
       [role |-> "user", content |-> question] >>

\* the messages format_sql_response hands to chat_completion
FormatPrompt(question) ==
    << [role |-> "system", content |-> "data assistant prompt + result"],
       [role |-> "user", content |-> question] >>

\* a call of chat_completion / chat_completion_stream with `msgs`
Sent(r, msgs) == [r EXCEPT !.gateway = Append(@, msgs)]

\* an exception leaving process_chat_message / process_chat_message_stream
Raised(r, stage) ==
    [r EXCEPT !.pc = "done", !.outcome = "raised", !.raised_by = stage]

\* a statement on the request's session: it fails once the transaction is aborted
DbOutcomes(r) == IF r.tx_aborted THEN {FALSE} ELSE BOOLEAN

NextConversationId == Cardinality(conversations) + 1

UserTurn(r) == [conversation_id |-> r.conversation, role |-> "user", content |-> r.user_message]

\* an assistant turn that stores the question instead of the answer
AssistantTurn_Echo(r, text) ==
    [conversation_id |-> r.conversation, role |-> "assistant", content |-> r.user_message]

AssistantTurn(r, text) == [conversation_id |-> r.conversation, role |-> "assistant", content |-> text]

(***************************************************************************)
(* process_chat_message / process_chat_message_stream, step by step        *)
(***************************************************************************)
ReceiveRequest ==
    /\ req.pc = "idle"
    /\ nreq < MaxRequests
    /\ \E c \in Chatbots \cup {UnknownChatbot}, q \in Questions, s \in BOOLEAN,
          cid \in {0} \cup {x.id : x \in conversations} :
          req' = [IdleReq EXCEPT !.pc = "get_chatbot", !.stream = s, !.chatbot_id = c,
                                 !.user_message = q, !.conversation_id = cid,
                                 !.msg_mark = Len(messages), !.conv_mark = conversations]
    /\ nreq' = nreq + 1
    /\ UNCHANGED <<storeVars, fnVars, sideVars>>

GetChatbot ==
    /\ req.pc = "get_chatbot"
    /\ \E ok \in DbOutcomes(req) :
          req' = IF ~ok THEN Raised(req, "get_chatbot")
                 ELSE IF req.chatbot_id \notin Chatbots THEN Raised(req, "ValueError")
                 ELSE [req EXCEPT !.pc = "get_conversation"]
    /\ UNCHANGED <<storeVars, nreq, fnVars, sideVars>>

\* get_or_create_conversation looking the conversation up by its id alone
GetOrCreateConversation_AnyTenant ==
    /\ req.pc = "get_conversation"
    /\ \E ok \in DbOutcomes(req) :
          IF ~ok
          THEN req' = Raised(req, "get_or_create_conversation") /\ UNCHANGED conversations
          ELSE IF /\ req.conversation_id # 0
                  /\ \E x \in conversations : x.id = req.conversation_id
          THEN /\ req' = [req EXCEPT !.pc = "check_excel", !.conversation = req.conversation_id]
               /\ UNCHANGED conversations
          ELSE /\ conversations' = conversations \cup
                      {[id |-> NextConversationId, chatbot_id |-> req.chatbot_id]}
               /\ req' = [req EXCEPT !.pc = "check_excel", !.conversation = NextConversationId]
    /\ UNCHANGED <<excel_rows, embeddings, messages, nreq, fnVars, sideVars>>

\* get_or_create_conversation
GetOrCreateConversation ==
    /\ req.pc = "get_conversation"
    /\ \E ok \in DbOutcomes(req) :
          IF ~ok
          THEN req' = Raised(req, "get_or_create_conversation") /\ UNCHANGED conversations
          ELSE IF /\ req.conversation_id # 0
                  /\ \E x \in conversations :
                        x.id = req.conversation_id /\ x.chatbot_id = req.chatbot_id
          THEN /\ req' = [req EXCEPT !.pc = "check_excel", !.conversation = req.conversation_id]
               /\ UNCHANGED conversations
          ELSE /\ conversations' = conversations \cup
                      {[id |-> NextConversationId, chatbot_id |-> req.chatbot_id]}
               /\ req' = [req EXCEPT !.pc = "check_excel", !.conversation = NextConversationId]
    /\ UNCHANGED <<excel_rows, embeddings, messages, nreq, fnVars, sideVars>>

CheckHasExcel ==
    /\ req.pc = "check_excel"
    /\ \E ok \in DbOutcomes(req) :
          req' = IF ~ok THEN Raised(Logged(req, "check_has_excel_data", NoSql, FALSE),
                                    "check_has_excel_data")
                 ELSE LET has == check_has_excel_data(excel_rows, req.chatbot_id)
                      IN  [Logged(req, "check_has_excel_data", NoSql, TRUE) EXCEPT
                              !.has_excel = has,
                              !.pc = IF has THEN "detect_intent" ELSE "retrieve_context"]
    /\ UNCHANGED <<storeVars, nreq, fnVars, sideVars>>

\* process_excel_query, step 1
DetectIntent ==
    /\ req.pc = "detect_intent"
    /\ LET intent == detect_intent(QuestionText(req.user_message))
       IN  req' = [Logged(req, "detect_intent", NoSql, TRUE) EXCEPT
                      !.intent = intent,
                      !.pc = IF intent = "SEMANTIC" THEN "retrieve_context" ELSE "get_schema"]
    /\ UNCHANGED <<storeVars, nreq, fnVars, sideVars>>

\* process_excel_query, step 2: get_excel_schema is awaited outside any try block
GetSchema ==
    /\ req.pc = "get_schema"
    /\ \E ok \in DbOutcomes(req) :
          req' = IF ~ok THEN Raised(Logged(req, "get_excel_schema", NoSql, FALSE),
                                    "get_excel_schema")
                 ELSE LET schema == get_excel_schema(excel_rows, req.chatbot_id)
                      IN  [Logged(req, "get_excel_schema", NoSql, TRUE) EXCEPT
                              !.schema = schema,
                              !.pc = IF schema.sheets = {} THEN "retrieve_context"
                                     ELSE "generate_sql"]
    /\ UNCHANGED <<storeVars, nreq, fnVars, sideVars>>

\* process_excel_query, step 3: generate_sql, whose failure is caught
GenerateSql ==
    /\ req.pc = "generate_sql"
    /\ LET r == Sent(req, SqlPrompt(req.user_message))
       IN  \/ req' = [Logged(r, "generate_sql", NoSql, FALSE) EXCEPT !.pc = "retrieve_context"]
           \/ \E text \in LlmSqlOutputs :
                 req' = [Logged(r, "generate_sql", text, TRUE) EXCEPT
                            !.sql = text, !.pc = "validate_sql"]
    /\ UNCHANGED <<storeVars, nreq, fnVars, sideVars>>

\* process_excel_query going on to the execution whatever validate_sql said
AfterValidation_Ignored(is_valid) == "execute_query"

\* where process_excel_query goes after validate_sql
AfterValidation(is_valid) == IF is_valid THEN "execute_query" ELSE "retrieve_context"

\* process_excel_query, step 4
ValidateSql ==
    /\ req.pc = "validate_sql"
    /\ LET v == validate_sql(req.sql)
       IN  req' = [Logged(req, "validate_sql", req.sql, v.ok) EXCEPT
                      !.pc = AfterValidation(v.ok)]
    /\ UNCHANGED <<storeVars, nreq, fnVars, sideVars>>

\* process_excel_query, step 5: execute_safe_query, whose failure is caught; a
\* statement the server rejected leaves the session's transaction aborted, an
\* error raised before the statement was sent does not
ExecuteQuery ==
    /\ req.pc = "execute_query"
    /\ \/ req' = [Logged(req, "execute_safe_query", req.sql, TRUE) EXCEPT
                     !.sql_result = execute_safe_query(excel_rows, req.sql, req.chatbot_id),
                     !.pc = "format_response"]
       \/ \E aborted \in BOOLEAN :
             req' = [Logged(req, "execute_safe_query", req.sql, FALSE) EXCEPT
                        !.tx_aborted = aborted, !.pc = "retrieve_context"]
    /\ UNCHANGED <<storeVars, nreq, fnVars, sideVars>>

\* process_excel_query, step 6: format_sql_response, whose failure is caught
FormatResponse ==
    /\ req.pc = "format_response"
    /\ LET saving == IF req.stream THEN "save_excel_user" ELSE "save_excel"
           r      == Logged(req, "format_sql_response", NoSql, TRUE)
       IN  IF req.sql_result = {}
           THEN req' = [r EXCEPT !.excel_response = NO_DATA_MESSAGE, !.pc = saving]
           ELSE LET s == Sent(r, FormatPrompt(req.user_message))
                IN  \/ req' = [Logged(s, "chat_completion", NoSql, FALSE) EXCEPT
                                  !.pc = "retrieve_context"]
                    \/ \E answer \in LlmAnswers :
                          req' = [Logged(s, "chat_completion", NoSql, TRUE) EXCEPT
                                     !.excel_response = answer, !.pc = saving]
    /\ UNCHANGED <<storeVars, nreq, fnVars, sideVars>>

\* process_chat_message: the SQL path saves both messages and returns
SaveExcel ==
    /\ req.pc = "save_excel"
    /\ \E ok \in DbOutcomes(req) :
          IF ~ok
          THEN req' = Raised(req, "flush") /\ UNCHANGED messages
          ELSE /\ messages' = messages \o <<UserTurn(req), AssistantTurn(req, req.excel_response)>>
               /\ req' = [req EXCEPT !.pc = "done", !.outcome = "returned",
                                     !.response_text = req.excel_response,
                                     !.path_used = "STRUCTURED"]
    /\ UNCHANGED <<excel_rows, embeddings, conversations, nreq, fnVars, sideVars>>

\* process_chat_message_stream: the SQL path saves the user message first
SaveExcelUser ==
    /\ req.pc = "save_excel_user"
    /\ \E ok \in DbOutcomes(req) :
          IF ~ok
          THEN req' = Raised(req, "flush") /\ UNCHANGED messages
          ELSE /\ messages' = Append(messages, UserTurn(req))
               /\ req' = [req EXCEPT !.pc = "yield_excel_conv_id"]
    /\ UNCHANGED <<excel_rows, embeddings, conversations, nreq, fnVars, sideVars>>

YieldExcelConvId ==
    /\ req.pc = "yield_excel_conv_id"
    /\ req' = [req EXCEPT !.emitted = Append(@, CONV_ID_MARKER), !.pc = "yield_excel_response"]
    /\ UNCHANGED <<storeVars, nreq, fnVars, sideVars>>

YieldExcelResponse ==
    /\ req.pc = "yield_excel_response"
    /\ req' = [req EXCEPT !.emitted = Append(@, req.excel_response),
                          !.pc = "save_excel_assistant"]
    /\ UNCHANGED <<storeVars, nreq, fnVars, sideVars>>

SaveExcelAssistant ==
    /\ req.pc = "save_excel_assistant"
    /\ \E ok \in DbOutcomes(req) :
          IF ~ok
          THEN req' = Raised(req, "flush") /\ UNCHANGED messages
          ELSE /\ messages' = Append(messages, AssistantTurn(req, req.excel_response))
               /\ req' = [req EXCEPT !.pc = "done", !.outcome = "returned",
                                     !.response_text = req.excel_response,
                                     !.path_used = "STRUCTURED"]
    /\ UNCHANGED <<excel_rows, embeddings, conversations, nreq, fnVars, sideVars>>

\* the RAG path catching the exception and answering with a fixed text
SemanticError_Swallowed(r, stage) ==
    [Logged(r, stage, NoSql, FALSE) EXCEPT
        !.pc = "done", !.outcome = "returned", !.response_text = NO_DATA_MESSAGE,
        !.path_used = "SEMANTIC"]

\* an exception in the RAG path: nothing catches it, it leaves the function
SemanticError(r, stage) == Raised(Logged(r, stage, NoSql, FALSE), stage)

\* retrieve_context: get_single_embedding
Embed ==
    /\ req.pc = "retrieve_context"
    /\ \/ req' = SemanticError(req, "get_single_embedding")
       \/ req' = [Logged(req, "get_single_embedding", NoSql, TRUE) EXCEPT
                     !.pc = "similarity_search"]
    /\ UNCHANGED <<storeVars, nreq, fnVars, sideVars>>

\* retrieve_context: similarity_search with the configured top_k and threshold
SimilaritySearch ==
    /\ req.pc = "similarity_search"
    /\ \E ok \in DbOutcomes(req) :
          req' = IF ~ok THEN SemanticError(req, "similarity_search")
                 ELSE [Logged(req, "similarity_search", NoSql, TRUE) EXCEPT
                          !.similar_chunks =
                              similarity_search(embeddings, req.chatbot_id, NoNumber, NoNumber),
                          !.pc = "get_chat_history"]
    /\ UNCHANGED <<storeVars, nreq, fnVars, sideVars>>

\* get_chat_history, then build_rag_prompt
GetChatHistory ==
    /\ req.pc = "get_chat_history"
    /\ \E ok \in DbOutcomes(req) :
          req' = IF ~ok THEN SemanticError(req, "get_chat_history")
                 ELSE LET history == get_chat_history(messages, req.conversation, HISTORY_LIMIT)
                      IN  [Logged(req, "get_chat_history", NoSql, TRUE) EXCEPT
                              !.chat_history = history,
                              !.prompt = build_rag_prompt(req.user_message, history),
                              !.pc = IF req.stream THEN "save_user" ELSE "chat_completion"]
    /\ UNCHANGED <<storeVars, nreq, fnVars, sideVars>>

\* process_chat_message: chat_completion(messages)
ChatCompletion ==
    /\ req.pc = "chat_completion"
    /\ LET r == Sent(req, req.prompt)
       IN  \/ req' = SemanticError(r, "chat_completion")
           \/ \E answer \in LlmAnswers :
                 req' = [Logged(r, "chat_completion", NoSql, TRUE) EXCEPT
                            !.response_text = answer, !.pc = "save_messages"]
    /\ UNCHANGED <<storeVars, nreq, fnVars, sideVars>>

\* process_chat_message: save both messages and return
SaveMessages ==
    /\ req.pc = "save_messages"
    /\ \E ok \in DbOutcomes(req) :
          IF ~ok
          THEN req' = Raised(req, "flush") /\ UNCHANGED messages
          ELSE /\ messages' = messages \o <<UserTurn(req), AssistantTurn(req, req.response_text)>>
               /\ req' = [req EXCEPT !.pc = "done", !.outcome = "returned",
                                     !.path_used = "SEMANTIC"]
    /\ UNCHANGED <<excel_rows, embeddings, conversations, nreq, fnVars, sideVars>>

\* the streaming path storing an assistant turn together with the user turn,
\* before anything was streamed
SaveUser_WithAssistant ==
    /\ req.pc = "save_user"
    /\ messages' = messages \o <<UserTurn(req), AssistantTurn(req, req.full_response)>>
    /\ req' = [req EXCEPT !.pc = "yield_conv_id"]
    /\ UNCHANGED <<excel_rows, embeddings, conversations, nreq, fnVars, sideVars>>

\* process_chat_message_stream: save the user message before streaming
SaveUser ==
    /\ req.pc = "save_user"
    /\ \E ok \in DbOutcomes(req) :
          IF ~ok
          THEN req' = Raised(req, "flush") /\ UNCHANGED messages
          ELSE /\ messages' = Append(messages, UserTurn(req))
               /\ req' = [req EXCEPT !.pc = "yield_conv_id"]
    /\ UNCHANGED <<excel_rows, embeddings, conversations, nreq, fnVars, sideVars>>

YieldConvId ==
    /\ req.pc = "yield_conv_id"
    /\ req' = [req EXCEPT !.emitted = Append(@, CONV_ID_MARKER), !.pc = "open_stream"]
    /\ UNCHANGED <<storeVars, nreq, fnVars, sideVars>>

\* chat_completion_stream: the request that opens the stream
OpenStream ==
    /\ req.pc = "open_stream"
    /\ LET r == Sent(req, req.prompt)
       IN  \/ req' = SemanticError(r, "chat_completion_stream")
           \/ \E deltas \in LlmStreams :
                 req' = [Logged(r, "chat_completion_stream", NoSql, TRUE) EXCEPT
                            !.llm_stream = deltas, !.pc = "streaming"]
    /\ UNCHANGED <<storeVars, nreq, fnVars, sideVars>>

\* the streaming loop passing on only the first delta it receives
StreamDelta_DropsLater ==
    /\ req.pc = "streaming"
    /\ IF req.llm_stream = <<>>
       THEN req' = [req EXCEPT !.pc = "save_assistant"]
       ELSE LET delta == Head(req.llm_stream)
            IN  req' = IF delta = "" \/ Len(req.emitted) > 1
                       THEN [req EXCEPT !.llm_stream = Tail(@)]
                       ELSE [req EXCEPT !.llm_stream = Tail(@),
                                        !.full_response = @ \o delta,
                                        !.emitted = Append(@, delta)]
    /\ UNCHANGED <<storeVars, nreq, fnVars, sideVars>>

\* one turn of `async for chunk in chat_completion_stream(messages)`
StreamDelta ==
    /\ req.pc = "streaming"
    /\ IF req.llm_stream = <<>>
       THEN req' = [req EXCEPT !.pc = "save_assistant"]
       ELSE \/ req' = SemanticError(req, "chat_completion_stream")
            \/ LET delta == Head(req.llm_stream)
               IN  req' = IF delta = ""
                          THEN [req EXCEPT !.llm_stream = Tail(@)]
                          ELSE [req EXCEPT !.llm_stream = Tail(@),
                                           !.full_response = @ \o delta,
                                           !.emitted = Append(@, delta)]
    /\ UNCHANGED <<storeVars, nreq, fnVars, sideVars>>

SaveAssistant ==
    /\ req.pc = "save_assistant"
    /\ \E ok \in DbOutcomes(req) :
          IF ~ok
          THEN req' = Raised(req, "flush") /\ UNCHANGED messages
          ELSE /\ messages' = Append(messages, AssistantTurn(req, req.full_response))
               /\ req' = [req EXCEPT !.pc = "done", !.outcome = "returned",
                                     !.response_text = req.full_response,
                                     !.path_used = "SEMANTIC"]
    /\ UNCHANGED <<excel_rows, embeddings, conversations, nreq, fnVars, sideVars>>

\* where the streaming generator can be stopped by its consumer: suspended at
\* one of its yields or awaiting the completion stream
CancelPoints == {"yield_excel_response", "save_excel_assistant", "open_stream", "streaming"}

\* a cancellation that stores what was streamed so far as the assistant turn
CancelStream_SavesPartial ==
    /\ req.stream
    /\ req.pc \in CancelPoints
    /\ messages' = Append(messages, AssistantTurn(req, req.full_response))
    /\ req' = [req EXCEPT !.pc = "done", !.outcome = "cancelled"]
    /\ UNCHANGED <<excel_rows, embeddings, conversations, nreq, fnVars, sideVars>>

\* the consumer goes away mid-stream: the generator is closed where it stands
\* and none of the statements after that point runs
CancelStream ==
    /\ req.stream
    /\ req.pc \in CancelPoints
    /\ req' = [req EXCEPT !.pc = "done", !.outcome = "cancelled"]
    /\ UNCHANGED <<storeVars, nreq, fnVars, sideVars>>

\* get_db at the end of the request: commit, or rollback when an exception came
\* through (the streaming route catches the exception in event_stream, and a
\* cancelled stream never reaches the commit, so what the session does with the
\* flushed rows of such a request is left open: either)
Finish ==
    /\ req.pc = "done"
    /\ \E rollback \in (IF req.outcome = "returned" THEN {FALSE}
                        ELSE IF req.stream THEN BOOLEAN ELSE {TRUE}) :
          IF rollback
          THEN /\ messages' = SubSeq(messages, 1, req.msg_mark)
               /\ conversations' = req.conv_mark
          ELSE UNCHANGED <<messages, conversations>>
    /\ req' = IdleReq
    /\ UNCHANGED <<excel_rows, embeddings, nreq, fnVars, sideVars>>

Next ==
    \/ ReceiveRequest
    \/ GetChatbot
    \/ GetOrCreateConversation
    \/ CheckHasExcel
    \/ DetectIntent
    \/ GetSchema
    \/ GenerateSql
    \/ ValidateSql
    \/ ExecuteQuery
    \/ FormatResponse
    \/ SaveExcel
    \/ SaveExcelUser
    \/ YieldExcelConvId
    \/ YieldExcelResponse
    \/ SaveExcelAssistant
    \/ Embed
    \/ SimilaritySearch
    \/ GetChatHistory
    \/ ChatCompletion
    \/ SaveMessages
    \/ SaveUser
    \/ YieldConvId
    \/ OpenStream
    \/ StreamDelta
    \/ SaveAssistant
    \/ CancelStream
    \/ Finish

Spec == Init /\ [][Next]_vars

(***************************************************************************)
(* Single calls of the pure functions on bounded inputs.  The tables are   *)
(* empty and no request is in flight.                                      *)
(***************************************************************************)
NoTraffic ==
    /\ excel_rows = {}
    /\ embeddings = {}
    /\ conversations = {}
    /\ messages = <<>>
    /\ req = IdleReq
    /\ nreq = 0

\* ---- validate_sql ----
MaxFrags == 3

PlainFrags ==
    { MinimalSelect, <<"S", "E", "L", "E", "C", "T">>, <<"s", "e", "l", "e", "c", "t">>, <<" ">>, <<";">>, <<"x">>, <<"'">>, <<"C", "h", "a", "t", "b", "o", "t", "_", "I", "D">> }

\* the forbidden words in upper, lower and mixed case, the comment tokens, and
\* a forbidden word as a quoted literal
TokenFrags ==
    { <<"I", "N", "S", "E", "R", "T">>, <<"U", "P", "D", "A", "T", "E">>, <<"D", "E", "L", "E", "T", "E">>, <<"D", "R", "O", "P">>, <<"A", "L", "T", "E", "R">>, <<"T", "R", "U", "N", "C", "A", "T", "E">>,
      <<"C", "R", "E", "A", "T", "E">>, <<"G", "R", "A", "N", "T">>, <<"R", "E", "V", "O", "K", "E">>, <<"E", "X", "E", "C">>, <<"E", "X", "E", "C", "U", "T", "E">>, <<"I", "N", "T", "O">>,
      <<"d", "r", "o", "p">>, <<"U", "p", "d", "a", "t", "e">>, <<"i", "n", "t", "o">>, <<"-", "-">>, <<"/", "*">>,
      <<"'", "U", "p", "d", "a", "t", "e", "'">> }

PlainSeqs(n) == [1..n -> PlainFrags]

\* texts of at most maxFrags fragments, at most one of them a token
SqlInputs(maxFrags) ==
    UNION { {Concat(fs) : fs \in PlainSeqs(n)} : n \in 0..maxFrags }
    \cup
    UNION { {Concat(SubSeq(fs, 1, k)) \o t \o Concat(SubSeq(fs, k + 1, n)) :
                fs \in PlainSeqs(n), k \in 0..n, t \in TokenFrags} :
            n \in 0..(maxFrags - 1) }

InitValidate ==
    /\ NoTraffic
    /\ SyncIdle /\ PeersIdle /\ LimiterIdle
    /\ fn_arg \in SqlInputs(MaxFrags)
    /\ fn_ret = None
    /\ fn_pc = "call"

CallValidate ==
    /\ fn_pc = "call"
    /\ fn_ret' = validate_sql(fn_arg)
    /\ fn_pc' = "returned"
    /\ UNCHANGED <<fn_arg, storeVars, req, nreq, sideVars>>

SpecValidate == InitValidate /\ [][CallValidate]_vars

\* ---- detect_intent ----
MaxWords == 3

\* how many times the same question is classified in a row
MaxCalls == 2

QuestionFrags ==
    { <<"t", "o", "t", "a", "l">>, <<"S", "u", "m">>, <<"%">>, <<"f", "i", "n", "d">>, <<"W", "h", "i", "c", "h">>, <<"w", "h", "a", "t", " ", "i", "s", " ", "t", "h", "e">>,
      <<"r", "e", "f", "u", "n", "d">>, <<" ">> }

QuestionInputs(maxWords) ==
    {Concat(ws) : ws \in UNION {[1..n -> QuestionFrags] : n \in 0..maxWords}}

InitIntent ==
    /\ NoTraffic
    /\ SyncIdle /\ PeersIdle /\ LimiterIdle
    /\ fn_arg \in QuestionInputs(MaxWords)
    /\ fn_ret = <<>>
    /\ fn_pc = "call"

\* fn_ret collects the intents of the successive calls
CallIntent ==
    /\ fn_pc = "call"
    /\ fn_ret' = Append(fn_ret, detect_intent(fn_arg))
    /\ fn_pc' = IF Len(fn_ret') < MaxCalls THEN "call" ELSE "returned"
    /\ UNCHANGED <<fn_arg, storeVars, req, nreq, sideVars>>

SpecIntent == InitIntent /\ [][CallIntent]_vars

\* ---- similarity_search ----
MaxChunks == 3

MaxTopK == 3

SimilarityLevels == {10, 50, 80}

TokenCounts == {100, 25000}

ChunkStores(maxChunks) ==
    UNION { { {[id |-> i, chatbot_id |-> f[i].chatbot_id, similarity |-> f[i].similarity,
                tokens |-> f[i].tokens] : i \in 1..n} :
              f \in [1..n -> [chatbot_id : Chatbots, similarity : SimilarityLevels,
                              tokens : TokenCounts]] } :
            n \in 0..maxChunks }

InitSearch ==
    /\ NoTraffic
    /\ SyncIdle /\ PeersIdle /\ LimiterIdle
    /\ fn_arg \in [store : ChunkStores(MaxChunks), chatbot_id : {"t1"},
                   top_k : {NoNumber} \cup {<<k>> : k \in 0..MaxTopK},
                   similarity_threshold : {NoNumber, <<50>>}]
    /\ fn_ret = <<>>
    /\ fn_pc = "call"

CallSearch ==
    /\ fn_pc = "call"
    /\ fn_ret' = similarity_search(fn_arg.store, fn_arg.chatbot_id, fn_arg.top_k,
                                   fn_arg.similarity_threshold)
    /\ fn_pc' = "returned"
    /\ UNCHANGED <<fn_arg, storeVars, req, nreq, sideVars>>

SpecSearch == InitSearch /\ [][CallSearch]_vars

\* ---- execute_safe_query: the row cap ----
\* the value of a decimal digit
DigitValue(c) ==
    CASE c = "0" -> 0 [] c = "1" -> 1 [] c = "2" -> 2 [] c = "3" -> 3 [] c = "4" -> 4
      [] c = "5" -> 5 [] c = "6" -> 6 [] c = "7" -> 7 [] c = "8" -> 8 [] c = "9" -> 9

RECURSIVE ParseNat(_)
ParseNat(s) ==
    IF s = <<>> THEN 0 ELSE 10 * ParseNat(SubSeq(s, 1, Len(s) - 1)) + DigitValue(s[Len(s)])

\* the row count of the statement's closing LIMIT clause as the database reads
\* it (keywords in any case, a closing ';' and blanks allowed), NoNumber when
\* the statement has no such clause
SqlRowLimit(sql) ==
    LET t    == RStrip(RStripSemicolons(RStrip(sql)))
        u    == Upper(t)
        at   == {i \in 1..Len(t) :
                    /\ OccursAt(u, <<" ", "L", "I", "M", "I", "T", " ">>, i)
                    /\ i + 7 <= Len(t)
                    /\ \A k \in (i + 7)..Len(t) : t[k] \in Digits}
    IN  IF at = {} THEN NoNumber
        ELSE <<ParseNat(SubSeq(t, (CHOOSE i \in at : TRUE) + 7, Len(t)))>>

\* how many of the `matching` rows fetchall() hands back for the statement
RowsFetched(matching, sql) ==
    IF SqlRowLimit(sql) = NoNumber THEN matching ELSE Min2(matching, SqlRowLimit(sql)[1])

\* len(execute_safe_query(db, sql, chatbot_id)) when `matching` rows satisfy the
\* statement's WHERE clause
RowCountOf(matching, sql) == RowsFetched(matching, ExecutedSql(sql))

MaxTableRows == 5000

\* a statement reading a column whose name holds the letters "limit"
SelectLimitColumn ==
    <<"S", "E", "L", "E", "C", "T", " ", "r", "o", "w", "_", "d", "a", "t", "a", "-", ">", ">", "'", "c", "r", "e", "d", "i", "t", "_", "l", "i", "m", "i", "t", "'", " ", "F", "R", "O", "M", " ", "e", "x", "c", "e", "l", "_", "r", "o", "w", "s", " ", "W", "H", "E", "R", "E", " ", "c", "h", "a", "t", "b", "o", "t", "_", "i", "d", " ", "=", " ", ":", "c", "h", "a", "t", "b", "o", "t", "_", "i", "d">>

LimitClauses == { <<>>, <<" ", "L", "I", "M", "I", "T", " ", "2", "0">>, <<" ", "l", "i", "m", "i", "t", " ", "1", "0", "0", "0">>, <<" ", "L", "I", "M", "I", "T", " ", "1", "0", "0", "1">>, <<" ", "L", "I", "M", "I", "T", " ", "5", "0", "0", "0">> }

StatementEnds == { <<>>, <<";">>, <<" ">> }

\* the statements that pass validate_sql and so reach execute_safe_query
CappedInputs ==
    {sql \in {b \o c \o e : b \in {MinimalSelect, SelectLimitColumn}, c \in LimitClauses,
                            e \in StatementEnds} :
        validate_sql(sql).ok}

TableSizes == {0, 20, 1000, 1001, MaxTableRows}

InitRowCap ==
    /\ NoTraffic
    /\ SyncIdle /\ PeersIdle /\ LimiterIdle
    /\ fn_arg \in [sql : CappedInputs, matching : TableSizes]
    /\ fn_ret = 0
    /\ fn_pc = "call"

CallRowCap ==
    /\ fn_pc = "call"
    /\ fn_ret' = RowCountOf(fn_arg.matching, fn_arg.sql)
    /\ fn_pc' = "returned"
    /\ UNCHANGED <<fn_arg, storeVars, req, nreq, sideVars>>

SpecRowCap == InitRowCap /\ [][CallRowCap]_vars

\* ---- get_chat_history and build_rag_prompt ----
MaxTurns == 12

\* a messages table of n turns, turn i belonging to conversation convOf[i]
StoredTurns(n, convOf) ==
    [i \in 1..n |-> [conversation_id |-> convOf[i],
                     role |-> IF i % 2 = 1 THEN "user" ELSE "assistant",
                     content |-> ToString(i)]]

\* any table of at most MaxTurns turns spread over conversations 1 and 2; the
\* request is for conversation 1
InitHistory ==
    /\ NoTraffic
    /\ SyncIdle /\ PeersIdle /\ LimiterIdle
    /\ \E n \in 0..MaxTurns : \E f \in [1..n -> {1, 2}] :
          fn_arg = [messages |-> StoredTurns(n, f), conversation |-> 1, question |-> "q"]
    /\ fn_ret = <<>>
    /\ fn_pc = "call"

\* chat_history = get_chat_history(db, conversation.id), then build_rag_prompt
CallHistory ==
    /\ fn_pc = "call"
    /\ fn_ret' = build_rag_prompt(fn_arg.question,
                     get_chat_history(fn_arg.messages, fn_arg.conversation, HISTORY_LIMIT))
    /\ fn_pc' = "returned"
    /\ UNCHANGED <<fn_arg, storeVars, req, nreq, sideVars>>

SpecHistory == InitHistory /\ [][CallHistory]_vars

(***************************************************************************)
(* Re-sync of one Google Sheet source.  The scheduler and the sync         *)
(* endpoint of the router each run sync_sheet in a session of their own    *)
(* and commit after it returned.  A row is visible to readers once its     *)
(* transaction committed.                                                  *)
(***************************************************************************)
SyncTasks == {"scheduler", "router"}

MaxRevisions == 1

MaxSyncs == 2

RowIndexes == {1, 2}

NoHash == <<>>

compute_hash(revision) == <<"sha256", revision>>

\* the embedding chunk and the structured rows made from one revision of the sheet
RecordsOf(revision, by) ==
    {[kind |-> "chunk", revision |-> revision, index |-> 1, by |-> by]}
    \cup {[kind |-> "row", revision |-> revision, index |-> i, by |-> by] : i \in RowIndexes}

IdleSync ==
    [pc |-> "idle", round |-> 0, csv |-> 0, data_hash |-> NoHash,
     last_data_hash |-> NoHash, hash_dirty |-> FALSE,
     loaded_status |-> "ready", status |-> "ready",
     snapshot |-> {}, deleted |-> {}, added |-> {}, ret |-> FALSE]

InitSync ==
    /\ NoTraffic
    /\ FnIdle
    /\ PeersIdle /\ LimiterIdle
    /\ sheet = [revision |-> 0, rows |-> RecordsOf(0, <<"initial", 0>>),
                last_data_hash |-> compute_hash(0), status |-> "ready"]
    /\ sync = [t \in SyncTasks |-> IdleSync]

syncRest == <<storeVars, req, nreq, fnVars, peers, limiter, http>>

\* the owner of the sheet edits it
EditSheet ==
    /\ sheet.revision < MaxRevisions
    /\ sheet' = [sheet EXCEPT !.revision = @ + 1]
    /\ UNCHANGED <<sync, syncRest>>

\* the session loads the GoogleSheet object
SelectSheet(t) ==
    /\ sync[t].pc = "idle"
    /\ sync[t].round < MaxSyncs
    /\ sheet.status \in {"ready", "error"}
    /\ sync' = [sync EXCEPT ![t] = [IdleSync EXCEPT !.pc = "fetch", !.round = sync[t].round + 1,
                                       !.last_data_hash = sheet.last_data_hash,
                                       !.loaded_status = sheet.status, !.status = sheet.status]]
    /\ UNCHANGED <<sheet, syncRest>>

\* the except branch of sync_sheet: nothing is rolled back
SyncFailed(f) == [f EXCEPT !.status = "error", !.ret = FALSE, !.pc = "returned"]

FetchCsv(t) ==
    /\ sync[t].pc = "fetch"
    /\ \E outcome \in {"csv", "empty", "raise"} :
          sync' = [sync EXCEPT ![t] =
              CASE outcome = "raise" -> SyncFailed(@)
                [] outcome = "empty" -> [@ EXCEPT !.status = "error", !.ret = FALSE, !.pc = "returned"]
                [] outcome = "csv" ->
                     IF compute_hash(sheet.revision) = @.last_data_hash
                     THEN [@ EXCEPT !.status = "ready", !.ret = FALSE, !.pc = "returned"]
                     ELSE [@ EXCEPT !.csv = sheet.revision,
                                    !.data_hash = compute_hash(sheet.revision),
                                    !.pc = "delete"]]
    /\ UNCHANGED <<sheet, syncRest>>

\* the two DELETE statements start: they see the rows committed by now
DeleteOld(t) ==
    /\ sync[t].pc = "delete"
    /\ sync' = [sync EXCEPT ![t] = [@ EXCEPT !.snapshot = sheet.rows, !.pc = "deleting"]]
    /\ UNCHANGED <<sheet, syncRest>>

\* they finish once no other transaction holds a row they want; a row that
\* the other transaction deleted meanwhile is skipped, and the rows it
\* inserted were never seen
DeleteOldDone(t) ==
    /\ sync[t].pc = "deleting"
    /\ \A u \in SyncTasks \ {t} : sync[u].deleted \cap sync[t].snapshot = {}
    /\ sync' = [sync EXCEPT ![t] = [@ EXCEPT !.deleted = sync[t].snapshot \cap sheet.rows, !.pc = "embed"]]
    /\ UNCHANGED <<sheet, syncRest>>

GetEmbeddings(t) ==
    /\ sync[t].pc = "embed"
    /\ \E ok \in BOOLEAN :
          sync' = [sync EXCEPT ![t] = IF ok THEN [@ EXCEPT !.pc = "add"] ELSE SyncFailed(@)]
    /\ UNCHANGED <<sheet, syncRest>>

AddRecords(t) ==
    /\ sync[t].pc = "add"
    /\ sync' = [sync EXCEPT ![t] =
                  [@ EXCEPT !.added = RecordsOf(sync[t].csv, <<t, sync[t].round>>),
                            !.status = "ready",
                            !.last_data_hash = sync[t].data_hash, !.hash_dirty = TRUE,
                            !.ret = TRUE, !.pc = "returned"]]
    /\ UNCHANGED <<sheet, syncRest>>

\* the caller commits whatever sync_sheet left in the session
CommitSync(t) ==
    /\ sync[t].pc = "returned"
    /\ sheet' = [sheet EXCEPT
                   !.rows = (@ \ sync[t].deleted) \cup sync[t].added,
                   !.last_data_hash = IF sync[t].hash_dirty THEN sync[t].last_data_hash ELSE @,
                   !.status = IF sync[t].status # sync[t].loaded_status THEN sync[t].status ELSE @]
    /\ sync' = [sync EXCEPT ![t] = [IdleSync EXCEPT !.round = sync[t].round]]
    /\ UNCHANGED syncRest

NextSync ==
    \/ EditSheet
    \/ \E t \in SyncTasks : SelectSheet(t)
    \/ \E t \in SyncTasks : FetchCsv(t)
    \/ \E t \in SyncTasks : DeleteOld(t)
    \/ \E t \in SyncTasks : DeleteOldDone(t)
    \/ \E t \in SyncTasks : GetEmbeddings(t)
    \/ \E t \in SyncTasks : AddRecords(t)
    \/ \E t \in SyncTasks : CommitSync(t)

SpecSync == InitSync /\ [][NextSync]_vars

(***************************************************************************)
(* Two requests on one conversation, each in a session of its own, taking  *)
(* turns at their await points.  created_at is set when a turn is flushed, *)
(* so the messages table in created_at order grows in flush order.         *)
(***************************************************************************)
Peers == {1, 2}

PeerQuestion(p) == IF p = 1 THEN "What is the total amount?" ELSE "What is the refund policy?"

\* what the LLM streams for each of the two questions
PeerStream(p) == IF p = 1 THEN <<"a", "", "b">> ELSE <<"c", "d">>

\* what chat_completion returns for each of them
PeerAnswer(p) == IF p = 1 THEN "ab" ELSE "cd"

IdlePeer ==
    [pc |-> "idle", stream |-> FALSE, conversation |-> 0, user_message |-> None,
     chat_history |-> <<>>, llm_stream |-> <<>>, full_response |-> ""]

InitInterleave ==
    /\ excel_rows = {}
    /\ embeddings = {}
    /\ conversations = {[id |-> 1, chatbot_id |-> "t1"]}
    /\ messages = EarlierExchange
    /\ req = IdleReq
    /\ nreq = 0
    /\ FnIdle
    /\ SyncIdle /\ LimiterIdle
    /\ peers = [p \in Peers |-> IdlePeer]

peerRest == <<excel_rows, embeddings, conversations, req, nreq, fnVars, sheet, sync, limiter, http>>

\* the request arrives and get_or_create_conversation finds the conversation
PeerReceive(p) ==
    /\ peers[p].pc = "idle"
    /\ \E s \in BOOLEAN :
          peers' = [peers EXCEPT ![p] = [IdlePeer EXCEPT !.pc = "get_chat_history", !.stream = s,
                                            !.conversation = 1,
                                            !.user_message = PeerQuestion(p)]]
    /\ UNCHANGED <<messages, peerRest>>

PeerGetChatHistory(p) ==
    /\ peers[p].pc = "get_chat_history"
    /\ peers' = [peers EXCEPT ![p] =
                   [@ EXCEPT !.chat_history = get_chat_history(messages, 1, HISTORY_LIMIT),
                             !.llm_stream = PeerStream(p),
                             !.pc = IF peers[p].stream THEN "save_user" ELSE "chat_completion"]]
    /\ UNCHANGED <<messages, peerRest>>

\* process_chat_message: the completion returns and both turns are flushed together
PeerSaveMessages(p) ==
    /\ peers[p].pc = "chat_completion"
    /\ LET text == PeerAnswer(p)
       IN  /\ messages' = messages \o <<UserTurn(peers[p]), AssistantTurn(peers[p], text)>>
           /\ peers' = [peers EXCEPT ![p] = [@ EXCEPT !.full_response = text, !.pc = "done"]]
    /\ UNCHANGED peerRest

\* process_chat_message_stream: the user turn is flushed before the stream starts
PeerSaveUser(p) ==
    /\ peers[p].pc = "save_user"
    /\ messages' = Append(messages, UserTurn(peers[p]))
    /\ peers' = [peers EXCEPT ![p] = [@ EXCEPT !.pc = "streaming"]]
    /\ UNCHANGED peerRest

PeerStreamDelta(p) ==
    /\ peers[p].pc = "streaming"
    /\ peers' = [peers EXCEPT ![p] =
                   IF peers[p].llm_stream = <<>> THEN [@ EXCEPT !.pc = "save_assistant"]
                   ELSE [@ EXCEPT !.full_response = @ \o Head(peers[p].llm_stream),
                                  !.llm_stream = Tail(@)]]
    /\ UNCHANGED <<messages, peerRest>>

PeerSaveAssistant(p) ==
    /\ peers[p].pc = "save_assistant"
    /\ messages' = Append(messages, AssistantTurn(peers[p], peers[p].full_response))
    /\ peers' = [peers EXCEPT ![p] = [@ EXCEPT !.pc = "done"]]
    /\ UNCHANGED peerRest

NextInterleave ==
    \/ \E p \in Peers : PeerReceive(p)
    \/ \E p \in Peers : PeerGetChatHistory(p)
    \/ \E p \in Peers : PeerSaveMessages(p)
    \/ \E p \in Peers : PeerSaveUser(p)
    \/ \E p \in Peers : PeerStreamDelta(p)
    \/ \E p \in Peers : PeerSaveAssistant(p)

SpecInterleave == InitInterleave /\ [][NextInterleave]_vars

(***************************************************************************)
(* The chat endpoints and chat_limiter.  `limiter.count` and `limiter.ttl`  *)
(* are the counter and its expiry in Redis; `limiter.arrivals` counts the   *)
(* requests of a key that reached the endpoint in the running window.      *)
(***************************************************************************)
MAX_REQUESTS == 30

MaxArrivals == 31

Endpoints == {"send_message", "send_message_stream", "widget_chat", "widget_chat_stream"}

\* routers/widget.py awaits check_rate_limit; routers/chat.py calls it without
\* await, so the coroutine is created and never run
AwaitsCheck(endpoint) == endpoint \in {"widget_chat", "widget_chat_stream"}

\* current_user.id for the authenticated endpoints, widget_{bot_id}_{client_ip} for the widget
KeyOf(endpoint) == IF AwaitsCheck(endpoint) THEN "widget_t1_ip1" ELSE "user1"

LimiterKeys == {KeyOf(e) : e \in Endpoints}

\* RateLimiter.check on a key whose counter is `count`: the counter after it,
\* whether an expiry was set, and the result
RateLimiter_check(count, redis) ==
    CASE redis = "incr_raises"   -> [count |-> count, expire |-> FALSE, allowed |-> TRUE]
      [] redis = "expire_raises" -> [count |-> count + 1, expire |-> FALSE,
                                     allowed |-> IF count + 1 = 1 THEN TRUE
                                                 ELSE count + 1 <= MAX_REQUESTS]
      [] redis = "ok"            -> [count |-> count + 1, expire |-> count + 1 = 1,
                                     allowed |-> count + 1 <= MAX_REQUESTS]

IdleHttp ==
    [pc |-> "idle", endpoint |-> None, key |-> None, before |-> 0, status |-> 0,
     looked_up |-> FALSE]

InitRateLimit ==
    /\ NoTraffic
    /\ FnIdle
    /\ SyncIdle /\ PeersIdle
    /\ limiter = [count    |-> [k \in LimiterKeys |-> 0],
                  ttl      |-> [k \in LimiterKeys |-> FALSE],
                  arrivals |-> [k \in LimiterKeys |-> 0]]
    /\ http = IdleHttp

limitRest == <<storeVars, req, nreq, fnVars, sheet, sync, peers>>

HttpReceive ==
    /\ http.pc = "idle"
    /\ \E e \in Endpoints :
          /\ limiter.arrivals[KeyOf(e)] < MaxArrivals
          /\ limiter.count[KeyOf(e)] < MaxArrivals
          /\ http' = [IdleHttp EXCEPT !.pc = "check_rate_limit", !.endpoint = e,
                                      !.key = KeyOf(e),
                                      !.before = limiter.arrivals[KeyOf(e)]]
          /\ limiter' = [limiter EXCEPT !.arrivals[KeyOf(e)] = @ + 1]
    /\ UNCHANGED limitRest

\* the first statement of the endpoint
CheckRateLimit ==
    /\ http.pc = "check_rate_limit"
    /\ IF AwaitsCheck(http.endpoint)
       THEN \E redis \in {"ok", "incr_raises", "expire_raises"} :
               LET c == RateLimiter_check(limiter.count[http.key], redis)
               IN  /\ limiter' = [limiter EXCEPT
                                     !.count[http.key] = c.count,
                                     !.ttl[http.key] = @ \/ c.expire]
                   /\ http' = IF c.allowed THEN [http EXCEPT !.pc = "lookup"]
                              ELSE [http EXCEPT !.status = 429, !.pc = "done"]
       ELSE /\ http' = [http EXCEPT !.pc = "lookup"]
            /\ UNCHANGED limiter
    /\ UNCHANGED limitRest

\* the chatbot lookup of the endpoint
LookupChatbot ==
    /\ http.pc = "lookup"
    /\ \E found \in BOOLEAN :
          http' = IF found THEN [http EXCEPT !.looked_up = TRUE, !.pc = "process"]
                  ELSE [http EXCEPT !.looked_up = TRUE, !.status = 404, !.pc = "done"]
    /\ UNCHANGED <<limiter, limitRest>>

ProcessMessage ==
    /\ http.pc = "process"
    /\ http' = [http EXCEPT !.status = 200, !.pc = "done"]
    /\ UNCHANGED <<limiter, limitRest>>

HttpRespond ==
    /\ http.pc = "done"
    /\ http' = IdleHttp
    /\ UNCHANGED <<limiter, limitRest>>

\* window_seconds have passed since the key's first request: Redis drops a
\* counter that has an expiry
WindowElapses(k) ==
    /\ http.pc = "idle"
    /\ limiter.arrivals[k] > 0
    /\ limiter' = [limiter EXCEPT !.arrivals[k] = 0,
                                  !.count[k] = IF limiter.ttl[k] THEN 0 ELSE @,
                                  !.ttl[k] = FALSE]
    /\ UNCHANGED <<http, limitRest>>

NextRateLimit ==
    \/ HttpReceive
    \/ CheckRateLimit
    \/ LookupChatbot
    \/ ProcessMessage
    \/ HttpRespond
    \/ \E k \in LimiterKeys : WindowElapses(k)

SpecRateLimit == InitRateLimit /\ [][NextRateLimit]_vars

(***************************************************************************)
(* Properties                                                              *)
(***************************************************************************)
\* text predicates of the properties, stated on the characters themselves
MatchesAtIgnoringCase(s, p, i) ==
    /\ i >= 1
    /\ i + Len(p) - 1 <= Len(s)
    /\ \A k \in 1..Len(p) : LowerChar(s[i + k - 1]) = LowerChar(p[k])

ContainsIgnoringCase(s, p) == \E i \in 1..(Len(s) + 1) : MatchesAtIgnoringCase(s, p, i)

\* p occurs in s with no letter, digit or underscore right before or after it
ContainsWholeWord(s, p) ==
    \E i \in 1..Len(s) :
        /\ MatchesAtIgnoringCase(s, p, i)
        /\ (i = 1 \/ ~IsWordChar(s[i - 1]))
        /\ (i + Len(p) > Len(s) \/ ~IsWordChar(s[i + Len(p)]))

\* s, once its leading whitespace is dropped, starts with p in any letter case
StartsWithAfterTrim(s, p) ==
    \E i \in 1..(Len(s) + 1) :
        /\ \A j \in 1..(i - 1) : s[j] \in Whitespace
        /\ MatchesAtIgnoringCase(s, p, i)
        /\ s[i] \notin Whitespace

\* a ';' with something other than blanks and ';' after it
HasFollowingStatement(s) ==
    \E i \in 1..Len(s) :
        /\ s[i] = ";"
        /\ \E j \in (i + 1)..Len(s) : s[j] \notin Whitespace \cup {";"}

CallsOf(fns) == {i \in DOMAIN req.calls : req.calls[i].fn \in fns}

InFlight == req.pc # "idle"

TenantHasRows == \E r \in excel_rows : r.chatbot_id = req.chatbot_id

QueryStages == {"generate_sql", "validate_sql", "execute_safe_query"}

StructuredStages == QueryStages \cup {"detect_intent", "get_excel_schema", "format_sql_response"}

StructuredPcs ==
    { "detect_intent", "get_schema", "generate_sql", "validate_sql", "execute_query",
      "format_response", "save_excel", "save_excel_user", "yield_excel_conv_id",
      "yield_excel_response", "save_excel_assistant" }

\* C1: every row returned by the executed query and every chunk returned by the
\* similarity search belongs to the chatbot of the request
C1_TenantIsolation ==
    InFlight =>
        /\ \A r \in req.sql_result : r.chatbot_id = req.chatbot_id
        /\ \A i \in DOMAIN req.similar_chunks :
              req.similar_chunks[i].chatbot_id = req.chatbot_id

\* C2: execute_safe_query is called only with the text generate_sql produced and
\* validate_sql accepted earlier in the same request, and after a rejection by
\* validate_sql no query is executed
C2_NoUnvalidatedExecution ==
    /\ \A i \in CallsOf({"execute_safe_query"}) :
          \E j \in 1..(i - 1), k \in 1..(i - 1) :
              /\ k < j
              /\ req.calls[k].fn = "generate_sql" /\ req.calls[k].ok
              /\ req.calls[k].sql = req.calls[i].sql
              /\ req.calls[j].fn = "validate_sql" /\ req.calls[j].ok
              /\ req.calls[j].sql = req.calls[i].sql
    /\ \A j \in CallsOf({"validate_sql"}) :
          ~req.calls[j].ok => \A i \in CallsOf({"execute_safe_query"}) : i < j

C2_Witness ==
    /\ CallsOf({"execute_safe_query"}) # {}
    /\ req.outcome = "returned"
    /\ req.path_used = "STRUCTURED"

\* C3: validate_sql rejects a text that does not start with SELECT (any case,
\* after trimming), a text with a ';' followed by another statement, and a text
\* that nowhere holds the tenant parameter's name chatbot_id; it accepts
\* SELECT * FROM excel_rows WHERE chatbot_id = :chatbot_id
C3_ValidateSqlRules ==
    fn_pc = "returned" =>
        /\ ~StartsWithAfterTrim(fn_arg, kwSELECT) => ~fn_ret.ok
        /\ HasFollowingStatement(fn_arg) => ~fn_ret.ok
        /\ ~ContainsIgnoringCase(fn_arg, chatbot_id_name) => ~fn_ret.ok
        /\ fn_arg = MinimalSelect => fn_ret.ok

C3_Witness ==
    /\ fn_pc = "returned"
    /\ fn_arg = MinimalSelect
    /\ fn_ret.ok

\* the words and comment tokens validate_sql is to reject
ForbiddenWords ==
    { <<"I", "N", "S", "E", "R", "T">>, <<"U", "P", "D", "A", "T", "E">>, <<"D", "E", "L", "E", "T", "E">>, <<"D", "R", "O", "P">>, <<"A", "L", "T", "E", "R">>, <<"T", "R", "U", "N", "C", "A", "T", "E">>,
      <<"C", "R", "E", "A", "T", "E">>, <<"G", "R", "A", "N", "T">>, <<"R", "E", "V", "O", "K", "E">>, <<"E", "X", "E", "C">>, <<"E", "X", "E", "C", "U", "T", "E">>, <<"I", "N", "T", "O">> }

CommentTokens == { <<"-", "-">>, <<"/", "*">> }

\* C4: validate_sql rejects every text holding a forbidden word as a whole word
\* in any letter case, and every text holding a comment token anywhere
C4_ForbiddenRejected ==
    fn_pc = "returned" =>
        /\ (\E w \in ForbiddenWords : ContainsWholeWord(fn_arg, w)) => ~fn_ret.ok
        /\ (\E t \in CommentTokens : Contains(fn_arg, t)) => ~fn_ret.ok

\* C5: a request of a chatbot without structured rows never enters the
\* structured path and, when it returns, was answered by the semantic path
C5_NoRowsSemanticOnly ==
    (InFlight /\ req.chatbot_id \in Chatbots /\ ~TenantHasRows) =>
        /\ CallsOf(StructuredStages) = {}
        /\ req.pc \notin StructuredPcs
        /\ req.outcome = "returned" => req.path_used = "SEMANTIC"

C5_Witness ==
    /\ ~TenantHasRows
    /\ req.user_message = "What is the total amount?"
    /\ req.outcome = "returned"
    /\ req.path_used = "SEMANTIC"

\* no aggregation keyword and no row-lookup keyword occurs in the question
NoKeywordIn(question) ==
    /\ \A i \in DOMAIN AGGREGATION_KEYWORDS :
          ~ContainsIgnoringCase(question, AGGREGATION_KEYWORDS[i])
    /\ \A i \in DOMAIN ROW_LOOKUP_KEYWORDS :
          ~ContainsIgnoringCase(question, ROW_LOOKUP_KEYWORDS[i])

\* the questions of the model in which no keyword occurs
KeywordlessQuestions == {q \in Questions : NoKeywordIn(QuestionText(q))}

SemanticCase ==
    /\ InFlight
    /\ req.chatbot_id \in Chatbots
    /\ TenantHasRows
    /\ req.user_message \in KeywordlessQuestions

\* C6: with structured rows and a question matching no keyword, the intent is
\* SEMANTIC, nothing of the structured path after the classification runs, and
\* a request that returns was answered by the semantic path
C6_SemanticIntentSkipsStructured ==
    SemanticCase =>
        /\ req.intent \in {None, "SEMANTIC"}
        /\ CallsOf(QueryStages \cup {"get_excel_schema", "format_sql_response"}) = {}
        /\ req.pc \notin (StructuredPcs \ {"detect_intent"})
        /\ req.outcome = "returned" =>
              /\ req.path_used = "SEMANTIC"
              /\ CallsOf({"get_single_embedding"}) # {}
              /\ CallsOf({"similarity_search"}) # {}
              /\ CallsOf({"chat_completion", "chat_completion_stream"}) # {}

C6_Witness ==
    /\ SemanticCase
    /\ req.intent = "SEMANTIC"
    /\ req.outcome = "returned"
    /\ req.path_used = "SEMANTIC"

\* a structured stage declined or failed in this request
StructuredDeclined ==
    \/ \E i \in CallsOf({"get_excel_schema", "generate_sql", "validate_sql",
                         "execute_safe_query"}) : ~req.calls[i].ok
    \/ (CallsOf({"get_excel_schema"}) # {} /\ req.schema.sheets = {})

\* C7: when a structured stage declines or fails, the request goes on to the
\* semantic path and the failure of the structured stage is not raised
C7_FallbackContract ==
    (req.pc = "done" /\ req.has_excel /\ req.intent \in {"AGGREGATION", "ROW_LOOKUP"}
        /\ StructuredDeclined) =>
        /\ CallsOf({"get_single_embedding"}) # {}
        /\ req.raised_by \notin StructuredStages

SemanticStages ==
    {"get_single_embedding", "similarity_search", "chat_completion", "chat_completion_stream"}

\* the failed calls of the semantic path (a chat_completion after get_chat_history
\* is the semantic one)
FailedSemanticCalls ==
    {i \in CallsOf(SemanticStages) :
        /\ ~req.calls[i].ok
        /\ req.calls[i].fn = "chat_completion" =>
              \E h \in CallsOf({"get_chat_history"}) : h < i}

\* C8: a failed embedding, vector-store or completion call of the semantic path
\* ends the request with an error: nothing runs after it, no answer is
\* returned and no assistant turn is stored
C8_SemanticFailureFatal ==
    \A i \in FailedSemanticCalls :
        /\ i = Len(req.calls)
        /\ req.pc = "done"
        /\ req.outcome = "raised"
        /\ req.raised_by = req.calls[i].fn
        /\ req.response_text = None
        /\ req.path_used = None
        /\ \A m \in (req.msg_mark + 1)..Len(messages) : messages[m].role # "assistant"

C8_Witness ==
    /\ FailedSemanticCalls # {}
    /\ req.stream
    /\ req.full_response # ""
    /\ req.outcome = "raised"

\* C9: the intent is AGGREGATION when an aggregation keyword occurs in the
\* question in any letter case, else ROW_LOOKUP when a row-lookup keyword
\* occurs, else SEMANTIC, and every repeated call gives the same intent
C9_IntentPriority ==
    LET aggregation == \E i \in DOMAIN AGGREGATION_KEYWORDS :
                           ContainsIgnoringCase(fn_arg, AGGREGATION_KEYWORDS[i])
        row_lookup  == \E i \in DOMAIN ROW_LOOKUP_KEYWORDS :
                           ContainsIgnoringCase(fn_arg, ROW_LOOKUP_KEYWORDS[i])
        expected    == IF aggregation THEN "AGGREGATION"
                       ELSE IF row_lookup THEN "ROW_LOOKUP"
                       ELSE "SEMANTIC"
    IN  fn_ret # <<>> => \A n \in DOMAIN fn_ret : fn_ret[n] = expected

C9_Witness ==
    /\ fn_pc = "returned"
    /\ ContainsIgnoringCase(fn_arg, <<"f", "i", "n", "d">>)
    /\ ContainsIgnoringCase(fn_arg, <<"S", "U", "M">>)
    /\ \A n \in DOMAIN fn_ret : fn_ret[n] = "AGGREGATION"

\* C10: similarity_search returns at most top_k items for every top_k >= 0
C10_AtMostTopK ==
    (fn_pc = "returned" /\ fn_arg.top_k # NoNumber) => Len(fn_ret) <= fn_arg.top_k[1]

(***************************************************************************)
(* Retrieval: threshold and token budget                                   *)
(***************************************************************************)
\* the threshold a call of similarity_search asked for: the one passed, or the
\* configured one when none was passed
RequestedThreshold ==
    IF fn_arg.similarity_threshold = NoNumber THEN RAG_SIMILARITY_THRESHOLD
    ELSE fn_arg.similarity_threshold[1]

\* the chatbot's stored chunks at or above the requested threshold
Candidates ==
    {c \in fn_arg.store : c.chatbot_id = fn_arg.chatbot_id /\ c.similarity >= RequestedThreshold}

Returned == {fn_ret[i] : i \in DOMAIN fn_ret}

RECURSIVE SumTokens(_)
SumTokens(s) == IF s = <<>> THEN 0 ELSE Head(s).tokens + SumTokens(Tail(s))

\* C11: every item similarity_search returns has a similarity at or above the
\* threshold the caller passed, and when no stored chunk of the chatbot reaches
\* the threshold the call returns the empty list
C11_ThresholdRespected ==
    fn_pc = "returned" =>
        /\ \A i \in DOMAIN fn_ret : fn_ret[i].similarity >= RequestedThreshold
        /\ Candidates = {} => fn_ret = <<>>

C11_Witness ==
    /\ fn_pc = "returned"
    /\ fn_arg.similarity_threshold = <<50>>
    /\ \E c \in fn_arg.store : c.chatbot_id = fn_arg.chatbot_id /\ c.similarity < 50
    /\ fn_ret # <<>>

\* C12: the result is a rank-order prefix of the threshold-filtered candidates,
\* its token counts sum to at most RAG_MAX_CONTEXT_TOKENS, and it ends before
\* the top_k-th candidate only at a candidate that would overflow the budget;
\* nothing ranked after that candidate is returned
C12_TokenBudgetPrefix ==
    fn_pc = "returned" =>
        LET rest  == Candidates \ Returned
            top_k == IF fn_arg.top_k = NoNumber \/ fn_arg.top_k[1] = 0 THEN RAG_TOP_K
                     ELSE fn_arg.top_k[1]
            full  == IF Cardinality(Candidates) < top_k THEN Cardinality(Candidates) ELSE top_k
        IN  /\ Returned \subseteq Candidates
            /\ Cardinality(Returned) = Len(fn_ret)
            /\ \A i, j \in DOMAIN fn_ret : i < j => fn_ret[i].similarity >= fn_ret[j].similarity
            /\ \A c \in rest : \A i \in DOMAIN fn_ret : fn_ret[i].similarity >= c.similarity
            /\ SumTokens(fn_ret) <= RAG_MAX_CONTEXT_TOKENS
            /\ Len(fn_ret) <= full
            /\ Len(fn_ret) < full =>
                   \E c \in rest :
                      /\ \A d \in rest : c.similarity >= d.similarity
                      /\ SumTokens(fn_ret) + c.tokens > RAG_MAX_CONTEXT_TOKENS

\* the budget cut the list short although a lower-ranked chunk would still fit
C12_Witness ==
    /\ fn_pc = "returned"
    /\ fn_arg.top_k = <<3>>
    /\ Len(fn_ret) = 1
    /\ Cardinality(Candidates) = 3
    /\ \E c \in Candidates \ Returned : SumTokens(fn_ret) + c.tokens <= RAG_MAX_CONTEXT_TOKENS

(***************************************************************************)
(* Composition, persistence and streaming                                  *)
(***************************************************************************)
CompletionCallsAfter(i) ==
    {j \in CallsOf({"chat_completion", "chat_completion_stream"}) : j > i}

\* C13: composing from an empty row list (structured) or an empty chunk list
\* (semantic) gives the fixed no-data message and makes no completion call
C13_EmptyEvidenceFixedMessage ==
    /\ \A i \in CallsOf({"format_sql_response"}) :
          req.sql_result = {} =>
              /\ CompletionCallsAfter(i) = {}
              /\ req.excel_response = NO_DATA_MESSAGE
    /\ \A i \in CallsOf({"similarity_search"}) :
          (req.calls[i].ok /\ req.similar_chunks = <<>>) =>
              /\ CompletionCallsAfter(i) = {}
              /\ req.outcome = "returned" => req.response_text = NO_DATA_MESSAGE

\* the turns the request in flight has appended
NewTurns == SubSeq(messages, req.msg_mark + 1, Len(messages))

\* C14: a request that returns a result has appended exactly two turns to the
\* conversation it resolved, the user's question and then the assistant's
\* answer, the latter holding the answer returned; a request appends nothing else
C14_TwoTurnsAppended ==
    /\ InFlight => Len(NewTurns) <= 2
    /\ (req.pc = "done" /\ req.outcome = "returned") =>
          /\ \E x \in conversations :
                x.id = req.conversation /\ x.chatbot_id = req.chatbot_id
          /\ NewTurns = << [conversation_id |-> req.conversation, role |-> "user",
                            content |-> req.user_message],
                           [conversation_id |-> req.conversation, role |-> "assistant",
                            content |-> req.response_text] >>

C14_Witness ==
    /\ req.pc = "done"
    /\ req.outcome = "returned"
    /\ req.path_used = "SEMANTIC"
    /\ ~req.stream
    /\ req.conversation \notin {x.id : x \in req.conv_mark}
    /\ Len(messages) = req.msg_mark + 2

NonEmptyDeltas(s) == SelectSeq(s, LAMBDA d : d # "")

IsSuffix(t, s) == Len(t) <= Len(s) /\ t = SubSeq(s, Len(s) - Len(t) + 1, Len(s))

StreamOpened == \E i \in CallsOf({"chat_completion_stream"}) : req.calls[i].ok

\* C15: process_chat_message_stream yields the conversation marker first and
\* then the non-empty deltas of the completion stream in the order they came:
\* at every moment what was emitted, followed by the non-empty deltas still to
\* come, is the marker followed by all non-empty deltas of the stream
C15_DeltasInOrder ==
    /\ req.emitted # <<>> => req.stream /\ req.emitted[1] = CONV_ID_MARKER
    /\ StreamOpened =>
          \E s \in LlmStreams :
              /\ IsSuffix(req.llm_stream, s)
              /\ req.emitted \o NonEmptyDeltas(req.llm_stream)
                     = <<CONV_ID_MARKER>> \o NonEmptyDeltas(s)

C15_Witness ==
    /\ StreamOpened
    /\ req.pc = "done"
    /\ req.outcome = "returned"
    /\ Len(req.emitted) = 3
    /\ req.llm_stream = <<>>

RECURSIVE JoinDeltas(_)
JoinDeltas(s) == IF s = <<>> THEN "" ELSE Head(s) \o JoinDeltas(Tail(s))

NewAssistantTurns == {i \in DOMAIN NewTurns : NewTurns[i].role = "assistant"}

\* C16: in a streamed request an assistant turn is stored only once the last
\* delta has been emitted, and when the stream has ended normally exactly one
\* was stored, holding the deltas emitted to the caller joined in order
C16_AssistantTurnAfterStream ==
    req.stream =>
        /\ NewAssistantTurns # {} => req.pc = "done" /\ req.llm_stream = <<>>
        /\ (req.pc = "done" /\ req.outcome = "returned") =>
              /\ Cardinality(NewAssistantTurns) = 1
              /\ \A i \in NewAssistantTurns :
                    /\ NewTurns[i].content = JoinDeltas(Tail(req.emitted))
                    /\ NewTurns[i].conversation_id = req.conversation

C16_Witness ==
    /\ req.stream
    /\ StreamOpened
    /\ req.pc = "done"
    /\ req.outcome = "returned"
    /\ Cardinality(NewAssistantTurns) = 1
    /\ JoinDeltas(Tail(req.emitted)) = "ab"

\* C17: a stream its consumer cancelled before it ended leaves no assistant
\* turn behind, whatever part of the answer had been emitted
C17_NoPartialTurnOnCancel ==
    req.outcome = "cancelled" =>
        \A i \in DOMAIN messages : messages[i].role = "assistant" => i <= req.msg_mark

C17_Witness ==
    /\ req.outcome = "cancelled"
    /\ req.full_response # ""
    /\ req.llm_stream # <<>>
    /\ Len(req.emitted) > 1

\* C18: whatever text reaches execute_safe_query, with or without a LIMIT
\* clause of its own, execute_safe_query returns at most 1000 rows
C18_RowCap ==
    fn_pc = "returned" => fn_ret <= ROW_CAP

\* the positions in the messages table of the turns of the call's conversation
OwnTurns == {i \in DOMAIN fn_arg.messages :
                fn_arg.messages[i].conversation_id = fn_arg.conversation}

\* C19: the prompt is one system message, then the most recent min(10, n)
\* stored turns of the request's conversation, oldest first, then the current
\* question as the last message; the question is nowhere else in the prompt
C19_HistoryWindow ==
    fn_pc = "returned" =>
        LET n == Cardinality(OwnTurns)
            k == IF n < 10 THEN n ELSE 10
            Rank(i) == Cardinality({x \in OwnTurns : x <= i})
        IN  /\ Len(fn_ret) = k + 2
            /\ fn_ret[1].role = "system"
            /\ \A j \in 2..Len(fn_ret) : fn_ret[j].role # "system"
            /\ \A j \in 1..k :
                  \E i \in OwnTurns :
                      /\ Rank(i) = n - k + j
                      /\ fn_ret[j + 1] = [role |-> fn_arg.messages[i].role,
                                          content |-> fn_arg.messages[i].content]
            /\ fn_ret[k + 2] = [role |-> "user", content |-> fn_arg.question]
            /\ \A j \in 1..(k + 1) : fn_ret[j].content # fn_arg.question

C19_Witness ==
    /\ fn_pc = "returned"
    /\ Cardinality(OwnTurns) > 10
    /\ Cardinality(OwnTurns) < Len(fn_arg.messages)
    /\ Len(fn_ret) = 12

\* the bounded history of the request's conversation as it stood when the
\* request came in
HistoryAtStart ==
    LET before == SubSeq(messages, 1, req.msg_mark)
        mine   == SelectSeq(before, LAMBDA m : m.conversation_id = req.conversation)
        recent == SubSeq(mine, IF Len(mine) > 10 THEN Len(mine) - 9 ELSE 1, Len(mine))
    IN  [i \in 1..Len(recent) |-> [role |-> recent[i].role, content |-> recent[i].content]]

HoldsTurns(msgs, turns) ==
    \E i \in 0..Len(msgs) :
        i + Len(turns) <= Len(msgs) /\ SubSeq(msgs, i + 1, i + Len(turns)) = turns

\* C20: a request answered by either path has read its conversation's recent
\* turns, and every message list it sent to the completion gateway holds them
C20_HistoryOnBothPaths ==
    (req.pc = "done" /\ req.outcome = "returned" /\ req.gateway # <<>>) =>
        /\ CallsOf({"get_chat_history"}) # {}
        /\ \A g \in DOMAIN req.gateway : HoldsTurns(req.gateway[g], HistoryAtStart)

\* C21: the rows and chunks committed for a source are at every moment one
\* complete revision written by one sync: never empty, partial or duplicated
SyncWriters == {<<"initial", 0>>} \cup (SyncTasks \X (1..MaxSyncs))

C21_AtomicResync ==
    sheet.rows \in {RecordsOf(revision, by) : revision \in 0..MaxRevisions, by \in SyncWriters}

(***************************************************************************)
(* Adaptive sizing, intent classification, conversations                   *)
(***************************************************************************)
\* the length of the threshold-filtered list: the candidates among the
\* 2 * top_k nearest rows fetched
FilteredLen(top_k) == Min2(Cardinality(Candidates), 2 * top_k)

\* C22: before token trimming, for every top_k >= 1: when the best surviving
\* score is above 0.75 the selection has at most top_k items and never fewer
\* than min(3, len(filtered)); otherwise it has exactly min(top_k, len(filtered))
\* items.  Stated on calls where no chunk can overflow the token budget, so
\* that the returned list is the selection.
C22_AdaptiveSizing ==
    (/\ fn_pc = "returned"
     /\ fn_arg.top_k # NoNumber
     /\ \A c \in Candidates : c.tokens * Cardinality(Candidates) <= RAG_MAX_CONTEXT_TOKENS) =>
        (fn_arg.top_k[1] >= 1 =>
            LET top_k == fn_arg.top_k[1]
            IN  IF \E c \in Candidates : c.similarity > CONFIDENT_SIMILARITY
                THEN /\ Len(fn_ret) <= top_k
                     /\ Len(fn_ret) >= Min2(3, FilteredLen(top_k))
                ELSE Len(fn_ret) = Min2(top_k, FilteredLen(top_k)))

\* the calls that go to the database and the calls that go to the LLM
DbCalls ==
    {"check_has_excel_data", "get_excel_schema", "execute_safe_query",
     "similarity_search", "get_chat_history"}

LlmCalls ==
    {"generate_sql", "format_sql_response", "get_single_embedding",
     "chat_completion", "chat_completion_stream"}

\* C23: classifying the intent makes no LLM or DB call, and for every question
\* the classification runs before any LLM call and before any DB call made for
\* that question
C23_IntentBeforeCalls ==
    /\ [][DetectIntent =>
            Len(req'.calls) = Len(req.calls) + 1 /\ req'.calls[Len(req'.calls)].fn = "detect_intent"]_vars
    /\ [](\A i \in CallsOf(DbCalls \cup LlmCalls) :
             \E j \in CallsOf({"detect_intent"}) : j < i)

\* the tenant that owns conversation `id`
OwnersOf(convs, id) == {x.chatbot_id : x \in {y \in convs : y.id = id}}

\* C24: a request reuses an existing conversation only if its id is the
\* conversation_id supplied and it belongs to the requesting tenant; otherwise
\* a new conversation of the requesting tenant is created; so the conversation
\* a request reads and appends to always belongs to the request's tenant
C24_TenantScopedConversation ==
    /\ [][(GetOrCreateConversation /\ req'.pc = "check_excel") =>
            IF OwnersOf(conversations, req'.conversation) # {}
            THEN /\ req'.conversation = req.conversation_id
                 /\ OwnersOf(conversations, req'.conversation) = {req.chatbot_id}
                 /\ conversations' = conversations
            ELSE conversations' = conversations \cup
                     {[id |-> req'.conversation, chatbot_id |-> req.chatbot_id]}]_vars
    /\ [](req.conversation # 0 =>
             /\ OwnersOf(conversations, req.conversation) = {req.chatbot_id}
             /\ \A i \in DOMAIN messages :
                   i > req.msg_mark => messages[i].conversation_id = req.conversation)

\* a request of t2 that supplied the id of t1's conversation got a conversation
\* of its own and wrote its turns there
C24_Witness ==
    /\ req.chatbot_id = "t2"
    /\ req.conversation_id = 1
    /\ OwnersOf(conversations, 1) = {"t1"}
    /\ req.conversation \notin {0, 1}
    /\ \E i \in DOMAIN messages : messages[i].conversation_id = req.conversation

(***************************************************************************)
(* Validation and string literals                                          *)
(***************************************************************************)
\* position i of s lies inside a quoted literal: an odd number of quotes precede it
InsideLiteral(s, i) == Cardinality({j \in 1..(i - 1) : s[j] = "'"}) % 2 = 1

WholeWordAt(s, p, i) ==
    /\ MatchesAtIgnoringCase(s, p, i)
    /\ (i = 1 \/ ~IsWordChar(s[i - 1]))
    /\ (i + Len(p) > Len(s) \/ ~IsWordChar(s[i + Len(p)]))

QuotesBalanced(s) == Cardinality({j \in 1..Len(s) : s[j] = "'"}) % 2 = 0

\* C25: validate_sql looks for forbidden keywords only outside string literals:
\* a text that passes the other rules and holds forbidden words solely inside
\* quoted literals, such as row_data->>'Update', is not rejected
C25_LiteralsNotChecked ==
    (/\ fn_pc = "returned"
     /\ StartsWithAfterTrim(fn_arg, kwSELECT)
     /\ ~HasFollowingStatement(fn_arg)
     /\ ContainsIgnoringCase(fn_arg, chatbot_id_name)
     /\ QuotesBalanced(fn_arg)
     /\ \A t \in CommentTokens : ~Contains(fn_arg, t)
     /\ \A w \in ForbiddenWords : \A i \in 1..Len(fn_arg) :
           WholeWordAt(fn_arg, w, i) => InsideLiteral(fn_arg, i)) =>
        fn_ret.ok

(***************************************************************************)
(* Schema, persistence and fallback                                        *)
(***************************************************************************)
RECURSIVE SumRowCounts(_)
SumRowCounts(sheets) ==
    IF sheets = {} THEN 0
    ELSE LET s == CHOOSE x \in sheets : TRUE
         IN  s.row_count + SumRowCounts(sheets \ {s})

\* C26: in the schema get_excel_schema returned, every sheet of the tenant
\* with at least one stored row is listed with its row count, and total_rows
\* is the sum of row_count over the listed sheets
C26_SchemaConsistent ==
    (\E i \in CallsOf({"get_excel_schema"}) : req.calls[i].ok) =>
        LET mine == {r \in excel_rows : r.chatbot_id = req.chatbot_id}
        IN  /\ \A n \in {r.sheet_name : r \in mine} :
                  \E s \in req.schema.sheets :
                      /\ s.name = n
                      /\ s.row_count = Cardinality({r \in mine : r.sheet_name = n})
            /\ req.schema.total_rows = SumRowCounts(req.schema.sheets)

\* the turns are complete exchanges: a user turn, then the assistant turn of
\* the same conversation
CompletePairs(msgs) ==
    /\ Len(msgs) % 2 = 0
    /\ \A i \in DOMAIN msgs :
          IF i % 2 = 1
          THEN /\ msgs[i].role = "user"
               /\ msgs[i + 1].role = "assistant"
               /\ msgs[i + 1].conversation_id = msgs[i].conversation_id
          ELSE msgs[i].role = "assistant"

\* C27: once a request is over, however it ended (answered, failed, or its
\* stream cancelled at any point, streaming or not), the persisted history
\* consists only of complete (user, assistant) pairs
C27_NoPartialPersistence == req.pc = "idle" => CompletePairs(messages)

\* C28: when two requests on one conversation interleave at their await
\* points, the user turn and the assistant turn of each request still end up
\* next to each other in the conversation's chronological history
C28_TurnsAdjacent ==
    (\A p \in Peers : peers[p].pc = "done") =>
        \A p \in Peers :
            \E i \in DOMAIN messages :
                /\ messages[i] = UserTurn(peers[p])
                /\ i + 1 \in DOMAIN messages
                /\ messages[i + 1] = AssistantTurn(peers[p], peers[p].full_response)

ExecuteFailed == \E i \in CallsOf({"execute_safe_query"}) : ~req.calls[i].ok

\* C29: the semantic fallback does not depend on the failed structured
\* attempt: after execute_safe_query failed on the request's session, the
\* statements the semantic path still has to run on that session (vector
\* search, history read, storing the two turns) can succeed, and a request
\* that ends with an error after such a failure was not stopped by the session
C29_FallbackIndependent ==
    ExecuteFailed =>
        /\ req.pc \notin {"idle", "done"} => TRUE \in DbOutcomes(req)
        /\ (req.pc = "done" /\ req.outcome = "raised") =>
              req.raised_by \notin {"similarity_search", "get_chat_history"}
                 \/ ~req.tx_aborted

\* C30: on each of the four chat endpoints, a request whose key was already
\* counted MAX_REQUESTS times in the running window is answered with 429
\* before the chatbot is looked up or the message processed
C30_RateLimited ==
    (http.pc \in {"lookup", "process", "done"} /\ http.before >= MAX_REQUESTS) =>
        (http.status = 429 /\ ~http.looked_up)

====
